---- MODULE Spec2Model ----
(***************************************************************************)
(* A model of profinder's relationship and messaging handlers: the         *)
(* BrowsePage, ProfilePage, AdminPage and MessagesPage components and the  *)
(* Firestore collections ("users", "messages") they read and write.        *)
(* Every await of a handler is a point where other handlers may run, so a  *)
(* handler with several awaits is several actions joined by a position.    *)
(***************************************************************************)
EXTENDS Integers, Sequences, FiniteSets, TLC

\* The registered accounts of the model.
Users == {"A", "B", "C"}

\* No user: an idle handler position, an unselected conversation.
NoUser == "none"

\* The sessions that act in the specifications.
Actors == {"A", "B"}

\* How many message documents a run creates.
MaxMessages == 1

\* How many onSnapshot callbacks of one page are awaiting at once.
MaxCallbacks == 1
MaxReports == 2
MaxSubscriptions == 3

\* What the user picks in the emoji picker.
Emojis == {"like"}

\* What the user types into the edit field.
EditTexts == {"bye"}

\* What the user types into the message field.
NewMessages == {"hello", " hello ", "  "}

\* String.prototype.trim on the typed texts.
Trim(t) ==
  CASE t = " hello " -> "hello"
    [] t = "  " -> ""
    [] OTHER -> t

VARIABLES
  \* ---- Firestore, collection "users" ----
  userDocs,            \* ids whose users/<id> document exists
  connections,         \* users/<id>.connections
  pendingConnections,  \* users/<id>.pendingConnections
  blockedUsers,        \* users/<id>.blockedUsers
  \* ---- Firebase Authentication ----
  authUsers,           \* ids whose authentication account exists
  \* ---- BrowsePage of each user ----
  profiles,            \* useState profiles: the users collection as fetched
  disconnectPc,        \* handleDisconnect between its two writes: the profileId
  \* ---- ProfilePage of each user ----
  profilePending,      \* useState pendingConnections: ids of the listed requests
  acceptPc,            \* handleAcceptConnection between its two writes: the connectionId
  deletePc,            \* handleDeleteAccount between deleteDoc and user.delete()
  \* ---- Firestore, collection "messages" ----
  messages,            \* messages/<id>, for the ids whose document exists
  msgCount,            \* how many message documents have been created
  \* ---- MessagesPage of each user ----
  users,               \* useState users: the connected users as fetched
  selectedUser,        \* useState selectedUser
  messagesState,       \* useState messages: the list the page renders
  isBlocked,           \* useState isBlocked
  isBlockedByThem,     \* useState isBlockedByThem
  lastSnapshot,        \* what the live onSnapshot listener delivered last
  callbacks,           \* the onSnapshot callbacks that are awaiting something
  statusCheck,         \* updateBlockStatus awaiting checkMutualBlockStatus
  sendCheck,           \* handleSendMessage awaiting checkMutualBlockStatus or addDoc
  sendResult,          \* how the last handleSendMessage ended
  blockRead,           \* handleBlockUser between getDoc and updateDoc
  editingMessageId,    \* useState editingMessageId
  reactionRead,        \* handleAddReaction between getDoc and updateDoc
  lastMessages,        \* useState lastMessages: the chat list's previews
  clearRead,           \* handleDeleteChatHistory between getDocs and batch.commit
  unblockRead,         \* handleUnblockUser between getDoc and updateDoc
  reports,             \* the reports collection, in the order of the addDoc calls
  isReported,          \* useState isReported
  listeners,           \* the onSnapshot listeners each page has attached so far
  lastCall,            \* the undo handler that ran in the last step, and for whom
  outcome,             \* how the handler that ended in the last step ended
  \* ---- observation ----
  overlap              \* an accept and a disconnect have been in progress at once

storeVars == <<userDocs, connections, pendingConnections, blockedUsers, authUsers>>
connVars == <<profiles, disconnectPc, profilePending, acceptPc, deletePc>>
msgStore == <<messages, msgCount>>
pageVars == <<users, selectedUser, messagesState, isBlocked, isBlockedByThem,
              lastSnapshot, callbacks, statusCheck, sendCheck, sendResult, blockRead>>
opVars == <<editingMessageId, reactionRead>>
listVars == <<lastMessages>>
reportVars == <<reports, isReported>>
handlerVars == <<clearRead, unblockRead, reportVars>>
subVars == <<listeners>>
msgVars == <<msgStore, pageVars, opVars, listVars, handlerVars, subVars>>
vars == <<storeVars, connVars, msgVars, overlap, lastCall, outcome>>

\* A page state that holds no entry yet.
EmptyMap == [x \in {} |-> {}]

\* No message id: editingMessageId is null.
NoMessage == 0

\* A handler or effect that is not running.
Idle == [st |-> "idle"]
NoCall == [op |-> "none"]
NoOutcome == [op |-> "none", me |-> NoUser, result |-> "none"]

\* A handler of u ends: with "success" when it ran to its end, with "error"
\* when its catch reported the failure to the user, with "unhandled" when the
\* promise it returned rejected and nothing catches it.
Ended(op, u, result) == [op |-> op, me |-> u, result |-> result]

\* A listener that has delivered nothing yet.
NoSnapshot == [delivered |-> FALSE, docs |-> <<>>]

\* Firestore arrayUnion on an array field without duplicates.
arrayUnion(arr, x) == arr \cup {x}

\* arrayRemove that puts the element in when it is not there.
arrayRemove_Toggle(arr, x) == IF x \in arr THEN arr \ {x} ELSE arr \cup {x}

\* Firestore arrayRemove.
arrayRemove(arr, x) == arr \ {x}

\* No page is open: the state of every component as its useState calls
\* initialise it, no handler running.
PageInit ==
  /\ profiles = [u \in Users |-> EmptyMap]
  /\ disconnectPc = [u \in Users |-> NoUser]
  /\ profilePending = [u \in Users |-> {}]
  /\ acceptPc = [u \in Users |-> NoUser]
  /\ deletePc = [u \in Users |-> FALSE]
  /\ overlap = FALSE
  /\ users = [u \in Users |-> {}]
  /\ selectedUser = [u \in Users |-> NoUser]
  /\ messagesState = [u \in Users |-> <<>>]
  /\ isBlocked = [u \in Users |-> FALSE]
  /\ isBlockedByThem = [u \in Users |-> FALSE]
  /\ lastSnapshot = [u \in Users |-> NoSnapshot]
  /\ callbacks = [u \in Users |-> {}]
  /\ statusCheck = [u \in Users |-> Idle]
  /\ sendCheck = [u \in Users |-> Idle]
  /\ sendResult = [u \in Users |-> "none"]
  /\ blockRead = [u \in Users |-> Idle]
  /\ editingMessageId = [u \in Users |-> NoMessage]
  /\ reactionRead = [u \in Users |-> Idle]
  /\ lastMessages = [u \in Users |-> [v \in Users |-> <<>>]]
  /\ clearRead = [u \in Users |-> Idle]
  /\ unblockRead = [u \in Users |-> Idle]
  /\ reports = <<>>
  /\ isReported = [u \in Users |-> FALSE]
  /\ listeners = [u \in Users |-> <<>>]
  /\ lastCall = NoCall
  /\ outcome = NoOutcome

----------------------------------------------------------------------------
\* The state after registration: every account has a document with empty arrays.
Init ==
  /\ userDocs = Users
  /\ authUsers = Users
  /\ connections = [u \in Users |-> {}]
  /\ pendingConnections = [u \in Users |-> {}]
  /\ blockedUsers = [u \in Users |-> {}]
  /\ messages = EmptyMap
  /\ msgCount = 0
  /\ PageInit

----------------------------------------------------------------------------
\* BrowsePage

\* fetchData: one getDocs of the users collection fills profiles. The page reads
\* a card's two arrays only through includes(currentUser.uid), so of each array
\* the copy keeps the current user's id and drops the ids it never looks at.
BrowseFetchData(u) ==
  /\ u \in authUsers
  /\ profiles' = [profiles EXCEPT ![u] =
       [p \in userDocs |->
          [connections |-> connections[p] \cap {u},
           pendingConnections |-> pendingConnections[p] \cap {u}]]]
  /\ UNCHANGED <<storeVars, disconnectPc, profilePending, acceptPc, deletePc, overlap>>
  /\ UNCHANGED msgVars
  /\ lastCall' = NoCall
  /\ outcome' = NoOutcome

\* filteredProfiles: the cards shown, never the current user's own.
filteredProfiles(u) == DOMAIN profiles[u] \ {u}

\* The card of p shows "Connected" with Disconnect and Message.
ShowsConnected(u, p) == u \in profiles[u][p].connections

\* The card of p shows "Request Sent" with Cancel.
ShowsRequestSent(u, p) ==
  /\ ~ShowsConnected(u, p)
  /\ u \in profiles[u][p].pendingConnections

\* The card of p shows Connect.
ShowsConnect(u, p) ==
  /\ ~ShowsConnected(u, p)
  /\ u \notin profiles[u][p].pendingConnections

\* Some handleAcceptConnection is between its two writes.
AcceptInProgress == \E w \in Users : acceptPc[w] # NoUser

\* Some handleDisconnect is between its two writes.
DisconnectInProgress == \E w \in Users : disconnectPc[w] # NoUser

\* handleAddFriend: updateDoc(profile, pendingConnections: arrayUnion(me)), then
\* the card's local copy gains me. updateDoc of a missing document rejects and the
\* handler ends there.
handleAddFriend(u, p) ==
  /\ u \in authUsers
  /\ p \in filteredProfiles(u)
  /\ ShowsConnect(u, p)
  /\ p \in userDocs
  /\ pendingConnections' =
       [pendingConnections EXCEPT ![p] = arrayUnion(@, u)]
  /\ profiles' = [profiles EXCEPT ![u][p].pendingConnections = @ \cup {u}]
  /\ UNCHANGED <<userDocs, connections, blockedUsers, authUsers,
                 disconnectPc, profilePending, acceptPc, deletePc, overlap>>
  /\ UNCHANGED msgVars
  /\ lastCall' = NoCall
  /\ outcome' = NoOutcome

\* handleCancelRequest: updateDoc(profile, pendingConnections: arrayRemove(me)),
\* then the card's local copy loses me. updateDoc rejects when the document
\* does not exist; the handler has no try/catch.
handleCancelRequest(u, p) ==
  /\ u \in authUsers
  /\ p \in filteredProfiles(u)
  /\ ShowsRequestSent(u, p)
  /\ IF p \in userDocs
       THEN /\ pendingConnections' =
                 [pendingConnections EXCEPT ![p] = arrayRemove(@, u)]
            /\ profiles' = [profiles EXCEPT ![u][p].pendingConnections = @ \ {u}]
            /\ outcome' = Ended("cancel", u, "success")
       ELSE /\ UNCHANGED <<pendingConnections, profiles>>
            /\ outcome' = Ended("cancel", u, "unhandled")
  /\ UNCHANGED <<userDocs, connections, blockedUsers, authUsers,
                 disconnectPc, profilePending, acceptPc, deletePc, overlap>>
  /\ UNCHANGED msgVars
  /\ lastCall' = [op |-> "cancel", me |-> u, other |-> p, n |-> 1]

\* handleDisconnect, first write: the other user's document loses me.
handleDisconnectFirst(u, p) ==
  /\ u \in authUsers
  /\ p \in filteredProfiles(u)
  /\ ShowsConnected(u, p)
  /\ disconnectPc[u] = NoUser
  /\ p \in userDocs
  /\ connections' = [connections EXCEPT ![p] = arrayRemove(@, u)]
  /\ disconnectPc' = [disconnectPc EXCEPT ![u] = p]
  /\ overlap' = (overlap \/ AcceptInProgress)
  /\ UNCHANGED <<userDocs, pendingConnections, blockedUsers, authUsers,
                 profiles, profilePending, acceptPc, deletePc>>
  /\ UNCHANGED msgVars
  /\ lastCall' = NoCall
  /\ outcome' = NoOutcome

\* handleDisconnect, second write: my document loses the other user; then the
\* card's local copy loses me. When my document is gone the write rejects and
\* the local copy is left as it was.
handleDisconnectSecond(u) ==
  /\ disconnectPc[u] # NoUser
  /\ LET p == disconnectPc[u] IN
       IF u \in userDocs
         THEN /\ connections' = [connections EXCEPT ![u] = arrayRemove(@, p)]
              /\ profiles' = [profiles EXCEPT ![u][p].connections = @ \ {u}]
              /\ outcome' = Ended("disconnect", u, "success")
         ELSE /\ UNCHANGED <<connections, profiles>>
              /\ outcome' = Ended("disconnect", u, "unhandled")
  /\ disconnectPc' = [disconnectPc EXCEPT ![u] = NoUser]
  /\ overlap' = (overlap \/ AcceptInProgress)
  /\ UNCHANGED <<userDocs, pendingConnections, blockedUsers, authUsers,
                 profilePending, acceptPc, deletePc>>
  /\ UNCHANGED msgVars
  /\ lastCall' = NoCall

----------------------------------------------------------------------------
\* ProfilePage

\* fetchUserData: the current user's pendingConnections, each id kept when its
\* document exists.
fetchUserData(u) ==
  /\ u \in authUsers
  /\ u \in userDocs
  /\ profilePending' =
       [profilePending EXCEPT ![u] = pendingConnections[u] \cap userDocs]
  /\ UNCHANGED <<storeVars, profiles, disconnectPc, acceptPc, deletePc, overlap>>
  /\ UNCHANGED msgVars
  /\ lastCall' = NoCall
  /\ outcome' = NoOutcome

\* The Profile page lists c among u's pending connections, with its Accept and
\* Reject buttons.
ShowsPendingRequest(u, c) == c \in profilePending[u]

\* handleAcceptConnection, first write: my document gains the connection and
\* loses the pending id.
handleAcceptConnectionFirst(u, c) ==
  /\ u \in authUsers
  /\ c \in profilePending[u]
  /\ acceptPc[u] = NoUser
  /\ u \in userDocs
  /\ connections' = [connections EXCEPT ![u] = arrayUnion(@, c)]
  /\ pendingConnections' = [pendingConnections EXCEPT ![u] = arrayRemove(@, c)]
  /\ acceptPc' = [acceptPc EXCEPT ![u] = c]
  /\ overlap' = (overlap \/ DisconnectInProgress)
  /\ UNCHANGED <<userDocs, blockedUsers, authUsers,
                 profiles, disconnectPc, profilePending, deletePc>>
  /\ UNCHANGED msgVars
  /\ lastCall' = NoCall
  /\ outcome' = NoOutcome

\* handleAcceptConnectionSecond without connections: arrayUnion(user.uid): the
\* other document only loses me as a pending id.
handleAcceptConnectionSecond_NoUnion(u) ==
  /\ acceptPc[u] # NoUser
  /\ LET c == acceptPc[u] IN
       IF c \in userDocs
         THEN /\ pendingConnections' =
                   [pendingConnections EXCEPT ![c] = arrayRemove(@, u)]
              /\ profilePending' = [profilePending EXCEPT ![u] = @ \ {c}]
              /\ UNCHANGED connections
         ELSE UNCHANGED <<connections, pendingConnections, profilePending>>
  /\ outcome' = Ended("accept", u,
       IF acceptPc[u] \in userDocs THEN "success" ELSE "error")
  /\ acceptPc' = [acceptPc EXCEPT ![u] = NoUser]
  /\ overlap' = (overlap \/ DisconnectInProgress)
  /\ UNCHANGED <<userDocs, blockedUsers, authUsers,
                 profiles, disconnectPc, deletePc>>
  /\ UNCHANGED msgVars
  /\ lastCall' = NoCall

\* handleAcceptConnection, second write: the other document gains me and loses me
\* as a pending id; then the request leaves the list. When the other document is
\* gone the write rejects, the error is shown and the list is left as it was.
handleAcceptConnectionSecond(u) ==
  /\ acceptPc[u] # NoUser
  /\ LET c == acceptPc[u] IN
       IF c \in userDocs
         THEN /\ connections' = [connections EXCEPT ![c] = arrayUnion(@, u)]
              /\ pendingConnections' =
                   [pendingConnections EXCEPT ![c] = arrayRemove(@, u)]
              /\ profilePending' = [profilePending EXCEPT ![u] = @ \ {c}]
         ELSE UNCHANGED <<connections, pendingConnections, profilePending>>
  /\ outcome' = Ended("accept", u,
       IF acceptPc[u] \in userDocs THEN "success" ELSE "error")
  /\ acceptPc' = [acceptPc EXCEPT ![u] = NoUser]
  /\ overlap' = (overlap \/ DisconnectInProgress)
  /\ UNCHANGED <<userDocs, blockedUsers, authUsers,
                 profiles, disconnectPc, deletePc>>
  /\ UNCHANGED msgVars
  /\ lastCall' = NoCall

\* handleRejectConnection: my document loses the pending id, the list the request.
handleRejectConnection(u, c) ==
  /\ u \in authUsers
  /\ c \in profilePending[u]
  /\ u \in userDocs
  /\ pendingConnections' = [pendingConnections EXCEPT ![u] = arrayRemove(@, c)]
  /\ profilePending' = [profilePending EXCEPT ![u] = @ \ {c}]
  /\ outcome' = Ended("reject", u, "success")
  /\ UNCHANGED <<userDocs, connections, blockedUsers, authUsers,
                 profiles, disconnectPc, acceptPc, deletePc, overlap>>
  /\ UNCHANGED msgVars
  /\ lastCall' = [op |-> "reject", me |-> u, other |-> c, n |-> 1]

\* handleCancelRequest called a second time with the same profile, straight
\* after the first call (a second click before the card is rendered again).
handleCancelRequestAgain(u, p) ==
  /\ lastCall = [op |-> "cancel", me |-> u, other |-> p, n |-> 1]
  /\ u \in authUsers
  /\ p \in userDocs
  /\ pendingConnections' =
       [pendingConnections EXCEPT ![p] = arrayRemove(@, u)]
  /\ profiles' = [profiles EXCEPT ![u][p].pendingConnections = @ \ {u}]
  /\ UNCHANGED <<userDocs, connections, blockedUsers, authUsers,
                 disconnectPc, profilePending, acceptPc, deletePc, overlap>>
  /\ UNCHANGED msgVars
  /\ lastCall' = [lastCall EXCEPT !.n = 2]
  /\ outcome' = Ended(lastCall.op, u, "success")

\* handleRejectConnection called a second time with the same connection,
\* straight after the first call.
handleRejectConnectionAgain(u, c) ==
  /\ lastCall = [op |-> "reject", me |-> u, other |-> c, n |-> 1]
  /\ u \in authUsers
  /\ u \in userDocs
  /\ pendingConnections' = [pendingConnections EXCEPT ![u] = arrayRemove(@, c)]
  /\ profilePending' = [profilePending EXCEPT ![u] = @ \ {c}]
  /\ UNCHANGED <<userDocs, connections, blockedUsers, authUsers,
                 profiles, disconnectPc, acceptPc, deletePc, overlap>>
  /\ UNCHANGED msgVars
  /\ lastCall' = [lastCall EXCEPT !.n = 2]
  /\ outcome' = Ended(lastCall.op, u, "success")

\* handleDeleteAccount, first await: deleteDoc(users/me). No other document is
\* read or written. A rejected deleteDoc is caught: setError, nothing changes.
handleDeleteAccountDoc(u) ==
  /\ u \in authUsers
  /\ ~deletePc[u]
  /\ \E rejected \in BOOLEAN :
       IF rejected
         THEN /\ UNCHANGED <<userDocs, deletePc>>
              /\ outcome' = Ended("deleteAccount", u, "error")
         ELSE /\ userDocs' = userDocs \ {u}
              /\ deletePc' = [deletePc EXCEPT ![u] = TRUE]
              /\ outcome' = NoOutcome
  /\ UNCHANGED <<connections, pendingConnections, blockedUsers, authUsers,
                 profiles, disconnectPc, profilePending, acceptPc, overlap>>
  /\ UNCHANGED msgVars
  /\ lastCall' = NoCall

\* handleDeleteAccount, second await: user.delete() removes the authentication
\* account and router.push("/") leaves the page. A rejected user.delete() (the
\* sign-in is not recent enough, the network is down) is caught: setError; the
\* document deleted by the first await is not written back.
handleDeleteAccountAuth(u) ==
  /\ deletePc[u]
  /\ \E rejected \in BOOLEAN :
       IF rejected
         THEN /\ UNCHANGED authUsers
              /\ outcome' = Ended("deleteAccount", u, "error")
         ELSE /\ authUsers' = authUsers \ {u}
              /\ outcome' = Ended("deleteAccount", u, "success")
  /\ deletePc' = [deletePc EXCEPT ![u] = FALSE]
  /\ UNCHANGED <<userDocs, connections, pendingConnections, blockedUsers,
                 profiles, disconnectPc, profilePending, acceptPc, overlap>>
  /\ UNCHANGED msgVars
  /\ lastCall' = NoCall

----------------------------------------------------------------------------
\* AdminPage

\* handleDeleteUser: deleteDoc(users/userId), then the dashboard is refetched.
handleDeleteUser(p) ==
  /\ p \in userDocs
  /\ userDocs' = userDocs \ {p}
  /\ UNCHANGED <<connections, pendingConnections, blockedUsers, authUsers,
                 connVars, overlap>>
  /\ UNCHANGED msgVars
  /\ lastCall' = NoCall
  /\ outcome' = NoOutcome

----------------------------------------------------------------------------
\* MessagesPage

\* isUserBlocked: getDoc(users/blockerId); a failed read is caught and answers
\* false, like a missing document.
isUserBlocked(blockerId, blockedId, readFails) ==
  IF readFails
    THEN FALSE
    ELSE IF blockerId \in userDocs
           THEN blockedId \in blockedUsers[blockerId]
           ELSE FALSE

\* checkMutualBlockStatus as it starts: Promise.all of two isUserBlocked calls,
\* neither answered yet; failed records that the catch of isUserBlocked ran.
checkMutualBlockStatus ==
  [pending |-> {1, 2}, user1BlocksUser2 |-> FALSE, user2BlocksUser1 |-> FALSE,
   failed |-> FALSE]

\* One of the two reads of checkMutualBlockStatus(user1Id, user2Id) is answered.
CheckAnswered(chk, which, user1Id, user2Id, readFails) ==
  IF which = 1
    THEN [chk EXCEPT !.pending = @ \ {1},
                     !.user1BlocksUser2 = isUserBlocked(user1Id, user2Id, readFails),
                     !.failed = @ \/ readFails]
    ELSE [chk EXCEPT !.pending = @ \ {2},
                     !.user2BlocksUser1 = isUserBlocked(user2Id, user1Id, readFails),
                     !.failed = @ \/ readFails]

\* The ids of the messages query of a conversation: senderId and receiverId both
\* among the two users.
QueryIds(u, v) ==
  {i \in DOMAIN messages :
     messages[i].senderId \in {u, v} /\ messages[i].receiverId \in {u, v}}

\* The query's documents, orderBy("timestamp", "asc"): the server assigns the
\* timestamps in the order of creation, which is the order of the ids.
QueryResult(u, v) ==
  LET ids == QueryIds(u, v)
      nth(k) == CHOOSE i \in ids : Cardinality({j \in ids : j < i}) = k - 1
  IN [k \in 1..Cardinality(ids) |->
        [id |-> nth(k),
         senderId |-> messages[nth(k)].senderId,
         receiverId |-> messages[nth(k)].receiverId,
         text |-> messages[nth(k)].text,
         seen |-> messages[nth(k)].seen,
         reactions |-> messages[nth(k)].reactions,
         isDeleted |-> messages[nth(k)].isDeleted,
         edited |-> messages[nth(k)].edited]]

\* isMessagingDisabled
isMessagingDisabled(u) == isBlocked[u] \/ isBlockedByThem[u] \/ isReported[u]

\* The messages area as rendered: the blocked placeholder in place of the list
\* when either flag is set, else the list.
VisibleMessages(u) ==
  IF selectedUser[u] = NoUser \/ isBlocked[u] \/ isBlockedByThem[u]
    THEN <<>>
    ELSE messagesState[u]

\* The listeners of u's page that are attached and not unsubscribed.
LiveListeners(u) == {k \in 1..Len(listeners[u]) : listeners[u][k].live}

\* The subscription effect's body: onSnapshot attaches a listener to the query
\* of the conversation with sel.
Subscribe(ls, sel) == Append(ls, [sel |-> sel, live |-> TRUE, unsubscribes |-> 0])

\* A subscription effect that returns no cleanup.
EffectCleanup_None(ls) == ls

\* The subscription effect's cleanup, `return () => unsubscribe()`: it is run
\* once for the effect run that attached the last listener, before the effect
\* runs again and when the page unmounts.
EffectCleanup(ls) ==
  IF ls = <<>> THEN ls
  ELSE [ls EXCEPT ![Len(ls)] =
          [@ EXCEPT !.live = FALSE, !.unsubscribes = @ + 1]]

\* fetchConnectedUsers with the userId of the URL: the current user's
\* connections, each kept when its document exists; the URL's user is selected
\* when it is among them. Selecting starts the two effects on selectedUser:
\* updateBlockStatus and the messages subscription.
fetchConnectedUsers(u, userId) ==
  /\ u \in authUsers
  /\ u \in userDocs
  /\ selectedUser[u] = NoUser
  /\ Len(listeners[u]) < MaxSubscriptions
  /\ LET connectedUsers == connections[u] \cap userDocs IN
       /\ users' = [users EXCEPT ![u] = connectedUsers]
       /\ userId \in connectedUsers
       /\ selectedUser' = [selectedUser EXCEPT ![u] = userId]
       /\ statusCheck' = [statusCheck EXCEPT ![u] =
            [st |-> "check", sel |-> userId, chk |-> checkMutualBlockStatus]]
       /\ lastSnapshot' = [lastSnapshot EXCEPT ![u] = NoSnapshot]
       /\ listeners' = [listeners EXCEPT ![u] = Subscribe(@, userId)]
  /\ UNCHANGED <<storeVars, connVars, msgStore, overlap, messagesState,
                 isBlocked, isBlockedByThem, callbacks, sendCheck, sendResult,
                 blockRead>>
  /\ UNCHANGED opVars
  /\ UNCHANGED listVars
  /\ UNCHANGED handlerVars
  /\ lastCall' = NoCall
  /\ outcome' = NoOutcome

\* updateBlockStatus: one read of checkMutualBlockStatus is answered.
updateBlockStatusRead(u, which, readFails) ==
  /\ statusCheck[u].st = "check"
  /\ which \in statusCheck[u].chk.pending
  /\ statusCheck' = [statusCheck EXCEPT ![u].chk =
       CheckAnswered(@, which, u, statusCheck[u].sel, readFails)]
  /\ UNCHANGED <<storeVars, connVars, msgStore, overlap, users, selectedUser,
                 messagesState, isBlocked, isBlockedByThem, lastSnapshot,
                 callbacks, sendCheck, sendResult, blockRead>>
  /\ UNCHANGED opVars
  /\ UNCHANGED listVars
  /\ UNCHANGED handlerVars
  /\ UNCHANGED subVars
  /\ lastCall' = NoCall
  /\ outcome' = NoOutcome

\* updateBlockStatus: setIsBlocked and setIsBlockedByThem with the answers.
updateBlockStatus(u) ==
  /\ statusCheck[u].st = "check"
  /\ statusCheck[u].chk.pending = {}
  /\ isBlocked' = [isBlocked EXCEPT ![u] = statusCheck[u].chk.user1BlocksUser2]
  /\ isBlockedByThem' =
       [isBlockedByThem EXCEPT ![u] = statusCheck[u].chk.user2BlocksUser1]
  /\ statusCheck' = [statusCheck EXCEPT ![u] = Idle]
  /\ UNCHANGED <<storeVars, connVars, msgStore, overlap, users, selectedUser,
                 messagesState, lastSnapshot, callbacks, sendCheck, sendResult,
                 blockRead>>
  /\ UNCHANGED opVars
  /\ UNCHANGED listVars
  /\ UNCHANGED handlerVars
  /\ UNCHANGED subVars
  /\ lastCall' = NoCall
  /\ outcome' = NoOutcome

\* A listener that delivers the query's result again although it has not
\* changed.
onSnapshot_Unchanged(u) ==
  /\ Cardinality(callbacks[u]) < MaxCallbacks
  /\ \E k \in LiveListeners(u) :
       LET sel == listeners[u][k].sel
           docs == QueryResult(u, sel) IN
         /\ lastSnapshot' =
              [lastSnapshot EXCEPT ![u] = [delivered |-> TRUE, docs |-> docs]]
         /\ callbacks' = [callbacks EXCEPT ![u] = @ \cup
              {[st |-> "check", sel |-> sel, snap |-> docs,
                chk |-> checkMutualBlockStatus]}]
  /\ UNCHANGED <<storeVars, connVars, msgStore, overlap, users, selectedUser,
                 messagesState, isBlocked, isBlockedByThem, statusCheck,
                 sendCheck, sendResult, blockRead>>
  /\ UNCHANGED opVars
  /\ UNCHANGED listVars
  /\ UNCHANGED handlerVars
  /\ UNCHANGED subVars
  /\ lastCall' = NoCall
  /\ outcome' = NoOutcome

\* The listener of the open conversation delivers the query's current result,
\* first when it is attached and then whenever the result has changed; the
\* callback starts with checkMutualBlockStatus.
onSnapshot(u) ==
  /\ Cardinality(callbacks[u]) < MaxCallbacks
  /\ \E k \in LiveListeners(u) :
       LET sel == listeners[u][k].sel
           docs == QueryResult(u, sel) IN
         /\ lastSnapshot[u] # [delivered |-> TRUE, docs |-> docs]
         /\ lastSnapshot' =
              [lastSnapshot EXCEPT ![u] = [delivered |-> TRUE, docs |-> docs]]
         /\ callbacks' = [callbacks EXCEPT ![u] = @ \cup
              {[st |-> "check", sel |-> sel, snap |-> docs,
                chk |-> checkMutualBlockStatus]}]
  /\ UNCHANGED <<storeVars, connVars, msgStore, overlap, users, selectedUser,
                 messagesState, isBlocked, isBlockedByThem, statusCheck,
                 sendCheck, sendResult, blockRead>>
  /\ UNCHANGED opVars
  /\ UNCHANGED listVars
  /\ UNCHANGED handlerVars
  /\ UNCHANGED subVars
  /\ lastCall' = NoCall
  /\ outcome' = NoOutcome

\* The callback cb of u's page with its fields changed to next.
Resume(u, cb, next) == [callbacks EXCEPT ![u] = (@ \ {cb}) \cup {next}]

\* The callback cb of u's page has returned.
Return(u, cb) == [callbacks EXCEPT ![u] = @ \ {cb}]

\* onSnapshot callback: one read of checkMutualBlockStatus is answered.
snapshotCheckRead(u, cb, which, readFails) ==
  /\ cb \in callbacks[u]
  /\ cb.st = "check"
  /\ which \in cb.chk.pending
  /\ callbacks' = Resume(u, cb,
       [cb EXCEPT !.chk = CheckAnswered(@, which, u, cb.sel, readFails)])
  /\ UNCHANGED <<storeVars, connVars, msgStore, overlap, users, selectedUser,
                 messagesState, isBlocked, isBlockedByThem, lastSnapshot,
                 statusCheck, sendCheck, sendResult, blockRead>>
  /\ UNCHANGED opVars
  /\ UNCHANGED listVars
  /\ UNCHANGED handlerVars
  /\ UNCHANGED subVars
  /\ lastCall' = NoCall
  /\ outcome' = NoOutcome

\* onSnapshot callback after the check: setMessages([]) and return when either
\* user blocks the other, else go on to the seen batch.
snapshotCheckDone(u, cb) ==
  /\ cb \in callbacks[u]
  /\ cb.st = "check"
  /\ cb.chk.pending = {}
  /\ IF cb.chk.user1BlocksUser2 \/ cb.chk.user2BlocksUser1
       THEN /\ messagesState' = [messagesState EXCEPT ![u] = <<>>]
            /\ callbacks' = Return(u, cb)
       ELSE /\ callbacks' = Resume(u, cb, [cb EXCEPT !.st = "commit"])
            /\ UNCHANGED messagesState
  /\ UNCHANGED <<storeVars, connVars, msgStore, overlap, users, selectedUser,
                 isBlocked, isBlockedByThem, lastSnapshot, statusCheck,
                 sendCheck, sendResult, blockRead>>
  /\ UNCHANGED opVars
  /\ UNCHANGED listVars
  /\ UNCHANGED handlerVars
  /\ UNCHANGED subVars
  /\ lastCall' = NoCall
  /\ outcome' = NoOutcome

\* The seen batch without the test of the receiver.
SeenBatch_AnyReceiver(u, snap) ==
  {snap[k].id : k \in {j \in 1..Len(snap) : ~snap[j].seen}}

\* The ids the seen batch updates: the snapshot's messages received by the
\* current user and not seen.
SeenBatch(u, snap) ==
  {snap[k].id : k \in {j \in 1..Len(snap) :
                         snap[j].receiverId = u /\ ~snap[j].seen}}

\* onSnapshot callback: batch.commit() of the seen updates. A failed write, as
\* an update of a document that is gone, rejects the batch, and the catch ends
\* the callback. A batch without updates writes nothing that can fail.
snapshotCommit(u, cb, writeFails) ==
  /\ cb \in callbacks[u]
  /\ cb.st = "commit"
  /\ writeFails => SeenBatch(u, cb.snap) # {}
  /\ IF ~writeFails /\ SeenBatch(u, cb.snap) \subseteq DOMAIN messages
       THEN /\ messages' = [i \in DOMAIN messages |->
                 IF i \in SeenBatch(u, cb.snap)
                   THEN [messages[i] EXCEPT !.seen = TRUE]
                   ELSE messages[i]]
            /\ callbacks' = Resume(u, cb, [cb EXCEPT !.st = "set"])
       ELSE /\ callbacks' = Return(u, cb)
            /\ UNCHANGED messages
  /\ UNCHANGED <<storeVars, connVars, msgCount, overlap, users, selectedUser,
                 messagesState, isBlocked, isBlockedByThem, lastSnapshot,
                 statusCheck, sendCheck, sendResult, blockRead>>
  /\ UNCHANGED opVars
  /\ UNCHANGED listVars
  /\ UNCHANGED handlerVars
  /\ UNCHANGED subVars
  /\ lastCall' = NoCall
  /\ outcome' = NoOutcome

\* onSnapshot callback after the batch: setMessages(messagesData), and
\* setLastMessages with the text and sender of the snapshot's last message.
snapshotSetMessages(u, cb) ==
  /\ cb \in callbacks[u]
  /\ cb.st = "set"
  /\ messagesState' = [messagesState EXCEPT ![u] = cb.snap]
  /\ lastMessages' = [lastMessages EXCEPT ![u][cb.sel] =
       IF cb.snap # <<>>
         THEN <<[text |-> cb.snap[Len(cb.snap)].text,
                 senderId |-> cb.snap[Len(cb.snap)].senderId]>>
         ELSE @]
  /\ callbacks' = Return(u, cb)
  /\ UNCHANGED <<storeVars, connVars, msgStore, overlap, users, selectedUser,
                 isBlocked, isBlockedByThem, lastSnapshot, statusCheck,
                 sendCheck, sendResult, blockRead>>
  /\ UNCHANGED opVars
  /\ UNCHANGED handlerVars
  /\ UNCHANGED subVars
  /\ lastCall' = NoCall
  /\ outcome' = NoOutcome

\* handleSendMessage is called: the message field is rendered only while
\* messaging is not disabled, and an empty trimmed text returns at once.
handleSendMessage(u, newMessage) ==
  /\ u \in authUsers
  /\ selectedUser[u] # NoUser
  /\ ~isMessagingDisabled(u)
  /\ Trim(newMessage) # ""
  /\ sendCheck[u].st = "idle"
  /\ msgCount + Cardinality({w \in Users : sendCheck[w].st # "idle"}) < MaxMessages
  /\ sendCheck' = [sendCheck EXCEPT ![u] =
       [st |-> "check", sel |-> selectedUser[u], text |-> Trim(newMessage),
        chk |-> checkMutualBlockStatus]]
  /\ UNCHANGED <<storeVars, connVars, msgStore, overlap, users, selectedUser,
                 messagesState, isBlocked, isBlockedByThem, lastSnapshot,
                 callbacks, statusCheck, sendResult, blockRead>>
  /\ UNCHANGED opVars
  /\ UNCHANGED listVars
  /\ UNCHANGED handlerVars
  /\ UNCHANGED subVars
  /\ lastCall' = NoCall
  /\ outcome' = NoOutcome

\* handleSendMessage: one read of checkMutualBlockStatus is answered.
sendCheckRead(u, which, readFails) ==
  /\ sendCheck[u].st = "check"
  /\ which \in sendCheck[u].chk.pending
  /\ sendCheck' = [sendCheck EXCEPT ![u].chk =
       CheckAnswered(@, which, u, sendCheck[u].sel, readFails)]
  /\ UNCHANGED <<storeVars, connVars, msgStore, overlap, users, selectedUser,
                 messagesState, isBlocked, isBlockedByThem, lastSnapshot,
                 callbacks, statusCheck, sendResult, blockRead>>
  /\ UNCHANGED opVars
  /\ UNCHANGED listVars
  /\ UNCHANGED handlerVars
  /\ UNCHANGED subVars
  /\ lastCall' = NoCall
  /\ outcome' = NoOutcome

\* handleSendMessage after the check, without the branch on user1BlocksUser2.
sendCheckDone_NoBlockedByMe(u) ==
  /\ sendCheck[u].st = "check"
  /\ sendCheck[u].chk.pending = {}
  /\ IF sendCheck[u].chk.user2BlocksUser1
       THEN /\ sendResult' = [sendResult EXCEPT ![u] = "blockedByThem"]
            /\ sendCheck' = [sendCheck EXCEPT ![u] = Idle]
       ELSE /\ sendCheck' = [sendCheck EXCEPT ![u].st = "add"]
            /\ UNCHANGED sendResult
  /\ UNCHANGED <<storeVars, connVars, msgStore, overlap, users, selectedUser,
                 messagesState, isBlocked, isBlockedByThem, lastSnapshot,
                 callbacks, statusCheck, blockRead>>
  /\ UNCHANGED opVars
  /\ UNCHANGED listVars
  /\ UNCHANGED handlerVars
  /\ UNCHANGED subVars
  /\ lastCall' = NoCall
  /\ outcome' = NoOutcome

\* handleSendMessage after the check: the blocked-by-them alert, else the
\* blocked-by-me alert, else go on to addDoc.
sendCheckDone(u) ==
  /\ sendCheck[u].st = "check"
  /\ sendCheck[u].chk.pending = {}
  /\ IF sendCheck[u].chk.user2BlocksUser1
       THEN /\ sendResult' = [sendResult EXCEPT ![u] = "blockedByThem"]
            /\ sendCheck' = [sendCheck EXCEPT ![u] = Idle]
       ELSE IF sendCheck[u].chk.user1BlocksUser2
         THEN /\ sendResult' = [sendResult EXCEPT ![u] = "blockedByMe"]
              /\ sendCheck' = [sendCheck EXCEPT ![u] = Idle]
         ELSE /\ sendCheck' = [sendCheck EXCEPT ![u].st = "add"]
              /\ UNCHANGED sendResult
  /\ UNCHANGED <<storeVars, connVars, msgStore, overlap, users, selectedUser,
                 messagesState, isBlocked, isBlockedByThem, lastSnapshot,
                 callbacks, statusCheck, blockRead>>
  /\ UNCHANGED opVars
  /\ UNCHANGED listVars
  /\ UNCHANGED handlerVars
  /\ UNCHANGED subVars
  /\ lastCall' = NoCall
  /\ outcome' = NoOutcome

\* handleSendMessage: addDoc of the new message.
sendAddDoc(u) ==
  /\ sendCheck[u].st = "add"
  /\ msgCount' = msgCount + 1
  /\ messages' = [i \in DOMAIN messages \cup {msgCount + 1} |->
       IF i = msgCount + 1
         THEN [senderId |-> u, receiverId |-> sendCheck[u].sel,
               text |-> sendCheck[u].text, seen |-> FALSE,
               reactions |-> EmptyMap, isDeleted |-> FALSE, edited |-> FALSE]
         ELSE messages[i]]
  /\ sendResult' = [sendResult EXCEPT ![u] = "sent"]
  /\ sendCheck' = [sendCheck EXCEPT ![u] = Idle]
  /\ UNCHANGED <<storeVars, connVars, overlap, users, selectedUser,
                 messagesState, isBlocked, isBlockedByThem, lastSnapshot,
                 callbacks, statusCheck, blockRead>>
  /\ UNCHANGED opVars
  /\ UNCHANGED listVars
  /\ UNCHANGED handlerVars
  /\ UNCHANGED subVars
  /\ lastCall' = NoCall
  /\ outcome' = NoOutcome

\* handleBlockUser, the getDoc of my document: the Block button is rendered
\* while isBlocked is unset and enabled while isBlockedByThem is unset. When the
\* user is already in the array the handler alerts and ends.
handleBlockUserRead(u) ==
  /\ u \in authUsers
  /\ selectedUser[u] # NoUser
  /\ ~isBlocked[u] /\ ~isBlockedByThem[u]
  /\ blockRead[u].st = "idle"
  /\ u \in userDocs
  /\ selectedUser[u] \notin blockedUsers[u]
  /\ blockRead' = [blockRead EXCEPT ![u] =
       [st |-> "block", userId |-> selectedUser[u], blockedUsers |-> blockedUsers[u]]]
  /\ UNCHANGED <<storeVars, connVars, msgStore, overlap, users, selectedUser,
                 messagesState, isBlocked, isBlockedByThem, lastSnapshot,
                 callbacks, statusCheck, sendCheck, sendResult>>
  /\ UNCHANGED opVars
  /\ UNCHANGED listVars
  /\ UNCHANGED handlerVars
  /\ UNCHANGED subVars
  /\ lastCall' = NoCall
  /\ outcome' = NoOutcome

\* handleBlockUser, the updateDoc: the array as read plus the user; then
\* setIsBlocked(true) and setMessages([]). A missing document rejects the write.
handleBlockUser(u) ==
  /\ blockRead[u].st = "block"
  /\ IF u \in userDocs
       THEN /\ blockedUsers' = [blockedUsers EXCEPT ![u] =
                 blockRead[u].blockedUsers \cup {blockRead[u].userId}]
            /\ isBlocked' = [isBlocked EXCEPT ![u] = TRUE]
            /\ messagesState' = [messagesState EXCEPT ![u] = <<>>]
       ELSE UNCHANGED <<blockedUsers, isBlocked, messagesState>>
  /\ blockRead' = [blockRead EXCEPT ![u] = Idle]
  /\ UNCHANGED <<userDocs, connections, pendingConnections, authUsers, connVars,
                 msgStore, overlap, users, selectedUser, isBlockedByThem,
                 lastSnapshot, callbacks, statusCheck, sendCheck, sendResult>>
  /\ UNCHANGED opVars
  /\ UNCHANGED listVars
  /\ UNCHANGED handlerVars
  /\ UNCHANGED subVars
  /\ lastCall' = NoCall
  /\ outcome' = NoOutcome

\* The message id as u's page lists it, or nothing when the list does not hold it.
Listed(u, id) ==
  {VisibleMessages(u)[k] : k \in {j \in 1..Len(VisibleMessages(u)) :
                                    VisibleMessages(u)[j].id = id}}

\* The message actions are rendered for a listed message that the list does not
\* hold as deleted and that is not being edited.
ShowsMessageActions(u, id) ==
  /\ u \in authUsers
  /\ \E m \in Listed(u, id) : ~m.isDeleted
  /\ editingMessageId[u] # id

\* The edit and delete buttons are rendered besides for my own messages only.
ShowsOwnerActions(u, id) ==
  /\ ShowsMessageActions(u, id)
  /\ \E m \in Listed(u, id) : m.senderId = u

\* handleAddReaction, the getDoc of the message; a missing document ends the
\* handler.
handleAddReactionRead(u, messageId, emoji) ==
  /\ ShowsMessageActions(u, messageId)
  /\ reactionRead[u].st = "idle"
  /\ messageId \in DOMAIN messages
  /\ reactionRead' = [reactionRead EXCEPT ![u] =
       [st |-> "react", messageId |-> messageId, emoji |-> emoji,
        reactions |-> messages[messageId].reactions]]
  /\ UNCHANGED <<storeVars, connVars, msgStore, pageVars, overlap,
                 editingMessageId>>
  /\ UNCHANGED listVars
  /\ UNCHANGED handlerVars
  /\ UNCHANGED subVars
  /\ lastCall' = NoCall
  /\ outcome' = NoOutcome

\* The reactions map written back as it was read, without my entry.
WithReaction_AsRead(reactions, u, emoji) == reactions

\* The reactions map as read with reactions[currentUser.uid] = emoji.
WithReaction(reactions, u, emoji) ==
  [w \in DOMAIN reactions \cup {u} |-> IF w = u THEN emoji ELSE reactions[w]]

\* handleAddReaction, the updateDoc: the whole reactions field is replaced by
\* the map as read with my entry set. A missing document rejects the write.
handleAddReaction(u) ==
  /\ reactionRead[u].st = "react"
  /\ IF reactionRead[u].messageId \in DOMAIN messages
       THEN messages' = [messages EXCEPT ![reactionRead[u].messageId].reactions =
              WithReaction(reactionRead[u].reactions, u, reactionRead[u].emoji)]
       ELSE UNCHANGED messages
  /\ reactionRead' = [reactionRead EXCEPT ![u] = Idle]
  /\ UNCHANGED <<storeVars, connVars, msgCount, pageVars, overlap,
                 editingMessageId>>
  /\ UNCHANGED listVars
  /\ UNCHANGED handlerVars
  /\ UNCHANGED subVars
  /\ lastCall' = NoCall
  /\ outcome' = NoOutcome

\* handleDeleteMessage: updateDoc of isDeleted. A missing document rejects the
\* write.
handleDeleteMessage(u, messageId) ==
  /\ ShowsOwnerActions(u, messageId)
  /\ IF messageId \in DOMAIN messages
       THEN messages' = [messages EXCEPT ![messageId].isDeleted = TRUE]
       ELSE UNCHANGED messages
  /\ UNCHANGED <<storeVars, connVars, msgCount, pageVars, overlap, opVars>>
  /\ UNCHANGED listVars
  /\ UNCHANGED handlerVars
  /\ UNCHANGED subVars
  /\ lastCall' = NoCall
  /\ outcome' = NoOutcome

\* The edit button: setEditingMessageId(message.id).
setEditingMessageId(u, messageId) ==
  /\ ShowsOwnerActions(u, messageId)
  /\ editingMessageId' = [editingMessageId EXCEPT ![u] = messageId]
  /\ UNCHANGED <<storeVars, connVars, msgStore, pageVars, overlap, reactionRead>>
  /\ UNCHANGED listVars
  /\ UNCHANGED handlerVars
  /\ UNCHANGED subVars
  /\ lastCall' = NoCall
  /\ outcome' = NoOutcome

\* handleEditMessage, called by the confirm button of the edit box, which is
\* rendered for the message being edited while the list does not hold it as
\* deleted: updateDoc of text and edited, then the edit mode ends. A missing
\* document rejects the write and the edit mode stays.
handleEditMessage(u, newText) ==
  /\ u \in authUsers
  /\ editingMessageId[u] # NoMessage
  /\ \E m \in Listed(u, editingMessageId[u]) : ~m.isDeleted
  /\ IF editingMessageId[u] \in DOMAIN messages
       THEN /\ messages' = [messages EXCEPT
                 ![editingMessageId[u]].text = newText,
                 ![editingMessageId[u]].edited = TRUE]
            /\ editingMessageId' = [editingMessageId EXCEPT ![u] = NoMessage]
       ELSE UNCHANGED <<messages, editingMessageId>>
  /\ UNCHANGED <<storeVars, connVars, msgCount, pageVars, overlap, reactionRead>>
  /\ UNCHANGED listVars
  /\ UNCHANGED handlerVars
  /\ UNCHANGED subVars
  /\ lastCall' = NoCall
  /\ outcome' = NoOutcome

\* How the list renders a message: the placeholder for one it holds as
\* deleted, else its text.
RenderMessage(m) == IF m.isDeleted THEN "Message deleted" ELSE m.text

\* getLastMessage: the chat list's preview of a conversation, the text of
\* lastMessages[userId] cut to 20 characters. No text of the model is longer.
getLastMessage(u, userId) ==
  IF lastMessages[u][userId] = <<>>
    THEN "No messages yet"
    ELSE lastMessages[u][userId][1].text

\* Every text u's page renders: the messages of the list and the previews of
\* the chat list.
RenderedOutput(u) ==
  {RenderMessage(VisibleMessages(u)[k]) : k \in 1..Len(VisibleMessages(u))}
    \cup {getLastMessage(u, v) : v \in users[u]}

\* handleDeleteChatHistory, the getDocs of the conversation's messages; the
\* button is disabled while isBlockedByThem is set.
handleDeleteChatHistoryRead(u) ==
  /\ u \in authUsers
  /\ selectedUser[u] # NoUser
  /\ ~isBlockedByThem[u]
  /\ clearRead[u].st = "idle"
  /\ clearRead' = [clearRead EXCEPT ![u] =
       [st |-> "clear", docs |-> QueryIds(u, selectedUser[u])]]
  /\ UNCHANGED subVars
  /\ UNCHANGED <<storeVars, connVars, msgStore, pageVars, overlap, opVars, listVars, unblockRead,
                 reportVars>>
  /\ lastCall' = NoCall
  /\ outcome' = NoOutcome

\* handleDeleteChatHistory with a batch that leaves out the first document.
handleDeleteChatHistory_SkipsFirst(u) ==
  /\ clearRead[u].st = "clear"
  /\ messages' = [i \in DOMAIN messages \ (clearRead[u].docs \ {1}) |-> messages[i]]
  /\ messagesState' = [messagesState EXCEPT ![u] = <<>>]
  /\ clearRead' = [clearRead EXCEPT ![u] = Idle]
  /\ UNCHANGED subVars
  /\ UNCHANGED <<storeVars, connVars, msgCount, overlap, users, selectedUser,
                 isBlocked, isBlockedByThem, lastSnapshot, callbacks,
                 statusCheck, sendCheck, sendResult, blockRead, opVars, listVars, unblockRead,
                 reportVars>>
  /\ lastCall' = NoCall
  /\ outcome' = NoOutcome

\* handleDeleteChatHistory, the batch.commit() that deletes every document
\* read, then setMessages([]). Deleting a document that is gone is no error.
handleDeleteChatHistory(u) ==
  /\ clearRead[u].st = "clear"
  /\ messages' = [i \in DOMAIN messages \ clearRead[u].docs |-> messages[i]]
  /\ messagesState' = [messagesState EXCEPT ![u] = <<>>]
  /\ clearRead' = [clearRead EXCEPT ![u] = Idle]
  /\ UNCHANGED subVars
  /\ UNCHANGED <<storeVars, connVars, msgCount, overlap, users, selectedUser,
                 isBlocked, isBlockedByThem, lastSnapshot, callbacks,
                 statusCheck, sendCheck, sendResult, blockRead, opVars, listVars, unblockRead,
                 reportVars>>
  /\ lastCall' = NoCall
  /\ outcome' = NoOutcome

\* handleUnblockUser, the getDoc of my document. The Unblock button is
\* rendered while isBlocked is set; a second call straight after the first
\* runs the handler with the same user.
handleUnblockUserRead(u, again) ==
  /\ u \in authUsers
  /\ selectedUser[u] # NoUser
  /\ unblockRead[u].st = "idle"
  /\ u \in userDocs
  /\ IF again
       THEN /\ lastCall = [op |-> "unblock", me |-> u, other |-> selectedUser[u], n |-> 1]
            /\ lastCall' = [lastCall EXCEPT !.n = 2]
       ELSE /\ isBlocked[u]
            /\ lastCall' = NoCall
  /\ unblockRead' = [unblockRead EXCEPT ![u] =
       [st |-> "unblock", userId |-> selectedUser[u],
        blockedUsers |-> blockedUsers[u], again |-> again]]
  /\ UNCHANGED subVars
  /\ UNCHANGED <<storeVars, connVars, msgStore, pageVars, overlap, opVars,
                 listVars, clearRead, reportVars>>
  /\ outcome' = NoOutcome

\* handleUnblockUser after the getDoc: when the user is in the array read, the
\* updateDoc writes the array without the user and setIsBlocked(false);
\* otherwise the handler alerts that the user is not blocked.
handleUnblockUser(u) ==
  /\ unblockRead[u].st = "unblock"
  /\ unblockRead[u].again => lastCall.op = "unblock" /\ lastCall.n = 2
  /\ IF unblockRead[u].userId \in unblockRead[u].blockedUsers /\ u \in userDocs
       THEN /\ blockedUsers' = [blockedUsers EXCEPT ![u] =
                 unblockRead[u].blockedUsers \ {unblockRead[u].userId}]
            /\ isBlocked' = [isBlocked EXCEPT ![u] = FALSE]
       ELSE UNCHANGED <<blockedUsers, isBlocked>>
  /\ lastCall' = IF unblockRead[u].again
                   THEN [lastCall EXCEPT !.n = 3]
                   ELSE [op |-> "unblock", me |-> u,
                         other |-> unblockRead[u].userId, n |-> 1]
  /\ unblockRead' = [unblockRead EXCEPT ![u] = Idle]
  /\ UNCHANGED subVars
  /\ UNCHANGED <<userDocs, connections, pendingConnections, authUsers, connVars,
                 msgStore, overlap, users, selectedUser, messagesState,
                 isBlockedByThem, lastSnapshot, callbacks, statusCheck,
                 sendCheck, sendResult, blockRead, opVars, listVars, clearRead,
                 reportVars>>
  /\ outcome' = Ended("unblock", u, "success")

\* handleReportUser(selectedUser.id, "Spam"): addDoc of a new report, then
\* setIsReported(true). The flag button reports while isReported is unset and
\* is disabled while isBlockedByThem is set; a retry runs the handler again
\* with the same user straight after the first call.
handleReportUser(u, again) ==
  /\ u \in authUsers
  /\ selectedUser[u] # NoUser
  /\ Len(reports) < MaxReports
  /\ IF again
       THEN lastCall = [op |-> "report", me |-> u, other |-> selectedUser[u], n |-> 1]
       ELSE ~isReported[u] /\ ~isBlockedByThem[u]
  /\ reports' = Append(reports,
       [reporterId |-> u, reportedUserId |-> selectedUser[u], reason |-> "Spam"])
  /\ isReported' = [isReported EXCEPT ![u] = TRUE]
  /\ lastCall' = [op |-> "report", me |-> u, other |-> selectedUser[u],
                  n |-> IF again THEN 2 ELSE 1]
  /\ UNCHANGED subVars
  /\ UNCHANGED <<storeVars, connVars, msgStore, pageVars, overlap, opVars,
                 listVars, clearRead, unblockRead>>
  /\ outcome' = Ended("report", u, "success")

\* A click on another user of the chat list: setSelectedUser(user). The two
\* effects on selectedUser run again: the subscription effect's cleanup
\* unsubscribes the listener of the conversation left and its body attaches one
\* to the new conversation, and updateBlockStatus starts (taken here when the
\* previous check has been answered).
setSelectedUser(u, user) ==
  /\ u \in authUsers
  /\ selectedUser[u] # NoUser
  /\ user \in users[u]
  /\ user # selectedUser[u]
  /\ statusCheck[u].st = "idle"
  /\ Len(listeners[u]) < MaxSubscriptions
  /\ selectedUser' = [selectedUser EXCEPT ![u] = user]
  /\ statusCheck' = [statusCheck EXCEPT ![u] =
       [st |-> "check", sel |-> user, chk |-> checkMutualBlockStatus]]
  /\ lastSnapshot' = [lastSnapshot EXCEPT ![u] = NoSnapshot]
  /\ listeners' = [listeners EXCEPT ![u] = Subscribe(EffectCleanup(@), user)]
  /\ UNCHANGED <<storeVars, connVars, msgStore, overlap, users, messagesState,
                 isBlocked, isBlockedByThem, callbacks, sendCheck, sendResult,
                 blockRead, opVars, listVars, handlerVars>>
  /\ lastCall' = NoCall
  /\ outcome' = NoOutcome

\* The page unmounts (the user navigates away), taken here when none of its
\* handlers and callbacks is suspended at an await: the subscription effect's
\* cleanup runs and the component's state is discarded.
unmount(u) ==
  /\ selectedUser[u] # NoUser
  /\ statusCheck[u].st = "idle" /\ sendCheck[u].st = "idle"
  /\ blockRead[u].st = "idle" /\ reactionRead[u].st = "idle"
  /\ clearRead[u].st = "idle" /\ unblockRead[u].st = "idle"
  /\ callbacks[u] = {}
  /\ listeners' = [listeners EXCEPT ![u] = EffectCleanup(@)]
  /\ users' = [users EXCEPT ![u] = {}]
  /\ selectedUser' = [selectedUser EXCEPT ![u] = NoUser]
  /\ messagesState' = [messagesState EXCEPT ![u] = <<>>]
  /\ isBlocked' = [isBlocked EXCEPT ![u] = FALSE]
  /\ isBlockedByThem' = [isBlockedByThem EXCEPT ![u] = FALSE]
  /\ lastSnapshot' = [lastSnapshot EXCEPT ![u] = NoSnapshot]
  /\ sendResult' = [sendResult EXCEPT ![u] = "none"]
  /\ editingMessageId' = [editingMessageId EXCEPT ![u] = NoMessage]
  /\ lastMessages' = [lastMessages EXCEPT ![u] = [v \in Users |-> <<>>]]
  /\ isReported' = [isReported EXCEPT ![u] = FALSE]
  /\ UNCHANGED <<storeVars, connVars, msgStore, overlap, callbacks, statusCheck,
                 sendCheck, blockRead, reactionRead, clearRead, unblockRead,
                 reports>>
  /\ lastCall' = NoCall
  /\ outcome' = NoOutcome

----------------------------------------------------------------------------
\* The relationship handlers of the Browse and Profile pages, any interleaving.
Next ==
  \/ \E u \in Actors : BrowseFetchData(u)
  \/ \E u \in Actors : fetchUserData(u)
  \/ \E u \in Actors, p \in Actors : handleAddFriend(u, p)
  \/ \E u \in Actors, p \in Actors : handleCancelRequest(u, p)
  \/ \E u \in Actors, p \in Actors : handleDisconnectFirst(u, p)
  \/ \E u \in Actors : handleDisconnectSecond(u)
  \/ \E u \in Actors, c \in Actors : handleAcceptConnectionFirst(u, c)
  \/ \E u \in Actors : handleAcceptConnectionSecond(u)
  \/ \E u \in Actors, c \in Actors : handleRejectConnection(u, c)

Spec == Init /\ [][Next]_vars

\* The same handlers together with account deletion, by the user and by the admin.
DeleteNext ==
  \/ Next
  \/ \E u \in Actors : handleDeleteAccountDoc(u)
  \/ \E u \in Actors : handleDeleteAccountAuth(u)
  \/ \E p \in Actors : handleDeleteUser(p)

SpecDelete == Init /\ [][DeleteNext]_vars

\* Every pair is Strangers and nobody blocks anybody.
AllStrangers ==
  \A u \in Users :
    connections[u] = {} /\ pendingConnections[u] = {} /\ blockedUsers[u] = {}

\* The round trip of one request: a request is sent only while every pair is
\* Strangers, and nothing but its acceptance follows.
RoundTripNext ==
  \/ \E u \in Users : BrowseFetchData(u)
  \/ \E u \in Users, p \in Users : AllStrangers /\ handleAddFriend(u, p)
  \/ \E u \in Users : fetchUserData(u)
  \/ \E u \in Users, c \in Users : handleAcceptConnectionFirst(u, c)
  \/ \E u \in Users : handleAcceptConnectionSecond(u)

SpecRoundTrip == Init /\ [][RoundTripNext]_vars

\* A and B have become connected (the round trip of a request) and have not
\* opened the messages page yet.
ConnectedInit ==
  /\ userDocs = Users
  /\ authUsers = Users
  /\ connections = [u \in Users |-> IF u = "A" THEN {"B"} ELSE IF u = "B" THEN {"A"} ELSE {}]
  /\ pendingConnections = [u \in Users |-> {}]
  /\ blockedUsers = [u \in Users |-> {}]
  /\ messages = EmptyMap
  /\ msgCount = 0
  /\ PageInit

\* The user who writes messages in the messaging specifications.
Senders == {"A"}

\* The messages page of two connected users: both open the conversation, the
\* live listener runs, A sends, either blocks the other; every read succeeds.
BlockNext ==
  \/ \E u \in Actors, v \in Actors : fetchConnectedUsers(u, v)
  \/ \E u \in Actors, w \in {1, 2} : updateBlockStatusRead(u, w, FALSE)
  \/ \E u \in Actors : updateBlockStatus(u)
  \/ \E u \in Actors : onSnapshot(u)
  \/ \E u \in Actors : \E cb \in callbacks[u], w \in {1, 2} :
       snapshotCheckRead(u, cb, w, FALSE)
  \/ \E u \in Actors : \E cb \in callbacks[u] : snapshotCheckDone(u, cb)
  \/ \E u \in Actors : \E cb \in callbacks[u] : snapshotCommit(u, cb, FALSE)
  \/ \E u \in Actors : \E cb \in callbacks[u] : snapshotSetMessages(u, cb)
  \/ \E u \in Senders, t \in NewMessages : handleSendMessage(u, t)
  \/ \E u \in Actors, w \in {1, 2} : sendCheckRead(u, w, FALSE)
  \/ \E u \in Actors : sendCheckDone(u)
  \/ \E u \in Actors : sendAddDoc(u)
  \/ \E u \in Actors : handleBlockUserRead(u)
  \/ \E u \in Actors : handleBlockUser(u)

SpecBlock == ConnectedInit /\ [][BlockNext]_vars

\* A and B are connected, A has sent B a message and has then blocked B;
\* neither has the messages page open.
BlockedInit ==
  /\ userDocs = Users
  /\ authUsers = Users
  /\ connections = [u \in Users |-> IF u = "A" THEN {"B"} ELSE IF u = "B" THEN {"A"} ELSE {}]
  /\ pendingConnections = [u \in Users |-> {}]
  /\ blockedUsers = [u \in Users |-> IF u = "A" THEN {"B"} ELSE {}]
  /\ messages = [i \in {1} |->
       [senderId |-> "A", receiverId |-> "B", text |-> "hello", seen |-> FALSE,
        reactions |-> EmptyMap, isDeleted |-> FALSE, edited |-> FALSE]]
  /\ msgCount = 1
  /\ PageInit

\* Both open the conversation while the block lasts; any read of a user
\* document may fail.
BlockedNext ==
  \/ \E u \in Actors, v \in Actors : fetchConnectedUsers(u, v)
  \/ \E u \in Actors, w \in {1, 2}, f \in BOOLEAN : updateBlockStatusRead(u, w, f)
  \/ \E u \in Actors : updateBlockStatus(u)
  \/ \E u \in Actors : onSnapshot(u)
  \/ \E u \in Actors : \E cb \in callbacks[u], w \in {1, 2}, f \in BOOLEAN :
       snapshotCheckRead(u, cb, w, f)
  \/ \E u \in Actors : \E cb \in callbacks[u] : snapshotCheckDone(u, cb)
  \/ \E u \in Actors : \E cb \in callbacks[u] : snapshotCommit(u, cb, FALSE)
  \/ \E u \in Actors : \E cb \in callbacks[u] : snapshotSetMessages(u, cb)

SpecBlocked == BlockedInit /\ [][BlockedNext]_vars

\* A and B are connected and A has sent B a message; neither has the messages
\* page open.
ChatInit ==
  /\ userDocs = Users
  /\ authUsers = Users
  /\ connections = [u \in Users |-> IF u = "A" THEN {"B"} ELSE IF u = "B" THEN {"A"} ELSE {}]
  /\ pendingConnections = [u \in Users |-> {}]
  /\ blockedUsers = [u \in Users |-> {}]
  /\ messages = [i \in {1} |->
       [senderId |-> "A", receiverId |-> "B", text |-> "hello", seen |-> FALSE,
        reactions |-> EmptyMap, isDeleted |-> FALSE, edited |-> FALSE]]
  /\ msgCount = 1
  /\ PageInit

\* Both have the conversation open and react to its message. The pair is not
\* blocked, so updateBlockStatus would set the flags to the values they have.
ReactionNext ==
  \/ \E u \in Actors, v \in Actors : fetchConnectedUsers(u, v)
  \/ \E u \in Actors : onSnapshot(u)
  \/ \E u \in Actors : \E cb \in callbacks[u], w \in {1, 2} :
       snapshotCheckRead(u, cb, w, FALSE)
  \/ \E u \in Actors : \E cb \in callbacks[u] : snapshotCheckDone(u, cb)
  \/ \E u \in Actors : \E cb \in callbacks[u] : snapshotCommit(u, cb, FALSE)
  \/ \E u \in Actors : \E cb \in callbacks[u] : snapshotSetMessages(u, cb)
  \/ \E u \in Actors, i \in 1..MaxMessages, e \in Emojis : handleAddReactionRead(u, i, e)
  \/ \E u \in Actors : handleAddReaction(u)

SpecReaction == ChatInit /\ [][ReactionNext]_vars

\* Both have the conversation open; the sender edits and deletes its message.
EditNext ==
  \/ \E u \in Actors, v \in Actors : fetchConnectedUsers(u, v)
  \/ \E u \in Actors, w \in {1, 2} : updateBlockStatusRead(u, w, FALSE)
  \/ \E u \in Actors : updateBlockStatus(u)
  \/ \E u \in Actors : onSnapshot(u)
  \/ \E u \in Actors : \E cb \in callbacks[u], w \in {1, 2} :
       snapshotCheckRead(u, cb, w, FALSE)
  \/ \E u \in Actors : \E cb \in callbacks[u] : snapshotCheckDone(u, cb)
  \/ \E u \in Actors : \E cb \in callbacks[u] : snapshotCommit(u, cb, FALSE)
  \/ \E u \in Actors : \E cb \in callbacks[u] : snapshotSetMessages(u, cb)
  \/ \E u \in Actors, i \in 1..MaxMessages : handleDeleteMessage(u, i)
  \/ \E u \in Actors, i \in 1..MaxMessages : setEditingMessageId(u, i)
  \/ \E u \in Actors, t \in EditTexts : handleEditMessage(u, t)

SpecEdit == ChatInit /\ [][EditNext]_vars

\* A has the conversation with B open, either disconnects on the Browse page,
\* and A sends.
StrangersNext ==
  \/ \E u \in Senders, v \in Actors : fetchConnectedUsers(u, v)
  \/ \E u \in Actors, w \in {1, 2} : updateBlockStatusRead(u, w, FALSE)
  \/ \E u \in Actors : updateBlockStatus(u)
  \/ \E u \in Actors : onSnapshot(u)
  \/ \E u \in Actors : \E cb \in callbacks[u], w \in {1, 2} :
       snapshotCheckRead(u, cb, w, FALSE)
  \/ \E u \in Actors : \E cb \in callbacks[u] : snapshotCheckDone(u, cb)
  \/ \E u \in Actors : \E cb \in callbacks[u] : snapshotCommit(u, cb, FALSE)
  \/ \E u \in Actors : \E cb \in callbacks[u] : snapshotSetMessages(u, cb)
  \/ \E u \in Senders, t \in NewMessages : handleSendMessage(u, t)
  \/ \E u \in Actors, w \in {1, 2} : sendCheckRead(u, w, FALSE)
  \/ \E u \in Actors : sendCheckDone(u)
  \/ \E u \in Actors : sendAddDoc(u)
  \/ \E u \in Actors : BrowseFetchData(u)
  \/ \E u \in Actors, p \in Actors : handleDisconnectFirst(u, p)
  \/ \E u \in Actors : handleDisconnectSecond(u)

SpecStrangers == ConnectedInit /\ [][StrangersNext]_vars

\* Both open the conversation and the listener runs; the commit of the seen
\* batch may fail.
SeenNext ==
  \/ \E u \in Actors, v \in Actors : fetchConnectedUsers(u, v)
  \/ \E u \in Actors, w \in {1, 2} : updateBlockStatusRead(u, w, FALSE)
  \/ \E u \in Actors : updateBlockStatus(u)
  \/ \E u \in Actors : onSnapshot(u)
  \/ \E u \in Actors : \E cb \in callbacks[u], w \in {1, 2} :
       snapshotCheckRead(u, cb, w, FALSE)
  \/ \E u \in Actors : \E cb \in callbacks[u] : snapshotCheckDone(u, cb)
  \/ \E u \in Actors : \E cb \in callbacks[u], f \in BOOLEAN :
       snapshotCommit(u, cb, f)
  \/ \E u \in Actors : \E cb \in callbacks[u] : snapshotSetMessages(u, cb)

SpecSeen == ChatInit /\ [][SeenNext]_vars

\* A is connected to B and to C; A has sent B a message and C has sent A one;
\* nobody has the messages page open.
ClearInit ==
  /\ userDocs = Users
  /\ authUsers = Users
  /\ connections = [u \in Users |-> IF u = "A" THEN {"B", "C"} ELSE {"A"}]
  /\ pendingConnections = [u \in Users |-> {}]
  /\ blockedUsers = [u \in Users |-> {}]
  /\ messages = [i \in {1, 2} |->
       [senderId |-> IF i = 1 THEN "A" ELSE "C",
        receiverId |-> IF i = 1 THEN "B" ELSE "A",
        text |-> "hello", seen |-> FALSE,
        reactions |-> EmptyMap, isDeleted |-> FALSE, edited |-> FALSE]]
  /\ msgCount = 2
  /\ PageInit

\* A and B have their conversation open; A deletes its message and blocks B,
\* either clears the history.
ClearNext ==
  \/ \E u \in Actors, v \in Actors : fetchConnectedUsers(u, v)
  \/ \E u \in Actors : onSnapshot(u)
  \/ \E u \in Actors : \E cb \in callbacks[u], w \in {1, 2} :
       snapshotCheckRead(u, cb, w, FALSE)
  \/ \E u \in Actors : \E cb \in callbacks[u] : snapshotCheckDone(u, cb)
  \/ \E u \in Actors : \E cb \in callbacks[u] : snapshotCommit(u, cb, FALSE)
  \/ \E u \in Actors : \E cb \in callbacks[u] : snapshotSetMessages(u, cb)
  \/ \E u \in Senders, i \in DOMAIN messages : handleDeleteMessage(u, i)
  \/ \E u \in Senders : handleBlockUserRead(u)
  \/ \E u \in Senders : handleBlockUser(u)
  \/ \E u \in Actors : handleDeleteChatHistoryRead(u)
  \/ \E u \in Actors : handleDeleteChatHistory(u)

SpecClear == ClearInit /\ [][ClearNext]_vars

\* A and B are connected and C has asked A to connect; nobody has a page open.
UndoInit ==
  /\ userDocs = Users
  /\ authUsers = Users
  /\ connections = [u \in Users |-> IF u = "A" THEN {"B"} ELSE IF u = "B" THEN {"A"} ELSE {}]
  /\ pendingConnections = [u \in Users |-> IF u = "A" THEN {"C"} ELSE {}]
  /\ blockedUsers = [u \in Users |-> {}]
  /\ messages = EmptyMap
  /\ msgCount = 0
  /\ PageInit

\* Requests are sent, cancelled and rejected, users blocked and unblocked, and
\* each undo handler may be called a second time straight after the first.
UndoNext ==
  \/ \E u \in Actors : BrowseFetchData(u)
  \/ \E u \in Actors : fetchUserData(u)
  \/ \E u \in Actors, p \in Users : handleAddFriend(u, p)
  \/ \E u \in Actors, p \in Users : handleCancelRequest(u, p)
  \/ \E u \in Actors, p \in Users : handleCancelRequestAgain(u, p)
  \/ \E u \in Actors, c \in Users : handleRejectConnection(u, c)
  \/ \E u \in Actors, c \in Users : handleRejectConnectionAgain(u, c)
  \/ \E u \in Actors, v \in Actors : fetchConnectedUsers(u, v)
  \/ \E u \in Actors : handleBlockUserRead(u)
  \/ \E u \in Actors : handleBlockUser(u)
  \/ \E u \in Actors, again \in BOOLEAN : handleUnblockUserRead(u, again)
  \/ \E u \in Actors : handleUnblockUser(u)

SpecUndo == UndoInit /\ [][UndoNext]_vars

\* A and B are connected; either blocks the other on the messages page, either
\* disconnects and asks again on the Browse page, and the Profile page lists the
\* pending requests.
PrecedenceNext ==
  \/ \E u \in Actors : BrowseFetchData(u)
  \/ \E u \in Actors : fetchUserData(u)
  \/ \E u \in Actors, p \in Actors : handleAddFriend(u, p)
  \/ \E u \in Actors, p \in Actors : handleDisconnectFirst(u, p)
  \/ \E u \in Actors : handleDisconnectSecond(u)
  \/ \E u \in Actors, c \in Actors : handleAcceptConnectionFirst(u, c)
  \/ \E u \in Actors : handleAcceptConnectionSecond(u)
  \/ \E u \in Actors, c \in Actors : handleRejectConnection(u, c)
  \/ \E u \in Actors, v \in Actors : fetchConnectedUsers(u, v)
  \/ \E u \in Actors : handleBlockUserRead(u)
  \/ \E u \in Actors : handleBlockUser(u)

SpecPrecedence == ConnectedInit /\ [][PrecedenceNext]_vars

\* A and B are connected; either opens the conversation, reports the other,
\* possibly with a retry, and blocks; A sends.
ReportNext ==
  \/ \E u \in Actors, v \in Actors : fetchConnectedUsers(u, v)
  \/ \E u \in Actors, w \in {1, 2} : updateBlockStatusRead(u, w, FALSE)
  \/ \E u \in Actors : updateBlockStatus(u)
  \/ \E u \in Actors, again \in BOOLEAN : handleReportUser(u, again)
  \/ \E u \in Senders, t \in NewMessages : handleSendMessage(u, t)
  \/ \E u \in Actors, w \in {1, 2} : sendCheckRead(u, w, FALSE)
  \/ \E u \in Actors : sendCheckDone(u)
  \/ \E u \in Actors : sendAddDoc(u)
  \/ \E u \in Actors : handleBlockUserRead(u)
  \/ \E u \in Actors : handleBlockUser(u)

SpecReport == ConnectedInit /\ [][ReportNext]_vars

\* A is connected to B and to C; A and B open the messages page, A moves
\* between the two conversations, either leaves the page and comes back.
SubscriptionNext ==
  \/ \E u \in Actors, v \in Users : fetchConnectedUsers(u, v)
  \/ \E u \in Actors, v \in Users : setSelectedUser(u, v)
  \/ \E u \in Actors : unmount(u)
  \/ \E u \in Actors, w \in {1, 2} : updateBlockStatusRead(u, w, FALSE)
  \/ \E u \in Actors : updateBlockStatus(u)
  \/ \E u \in Actors : onSnapshot(u)
  \/ \E u \in Actors : \E cb \in callbacks[u], w \in {1, 2} :
       snapshotCheckRead(u, cb, w, FALSE)
  \/ \E u \in Actors : \E cb \in callbacks[u] : snapshotCheckDone(u, cb)
  \/ \E u \in Actors : \E cb \in callbacks[u] : snapshotCommit(u, cb, FALSE)
  \/ \E u \in Actors : \E cb \in callbacks[u] : snapshotSetMessages(u, cb)

SpecSubscription == ClearInit /\ [][SubscriptionNext]_vars

\* The users of the end-to-end scenario: the one who asks and writes, and the
\* one who accepts, reads and reacts.
Requester == "A"
Acceptor == "B"

\* From Strangers: the requester asks on the Browse page, the acceptor accepts
\* on the Profile page, both open the conversation, the requester sends "hello"
\* and the acceptor reacts.
ScenarioNext ==
  \/ BrowseFetchData(Requester)
  \/ handleAddFriend(Requester, Acceptor)
  \/ fetchUserData(Acceptor)
  \/ handleAcceptConnectionFirst(Acceptor, Requester)
  \/ handleAcceptConnectionSecond(Acceptor)
  \/ \E u \in Actors, v \in Actors : fetchConnectedUsers(u, v)
  \/ \E u \in Actors, w \in {1, 2} : updateBlockStatusRead(u, w, FALSE)
  \/ \E u \in Actors : updateBlockStatus(u)
  \/ \E u \in Actors : onSnapshot(u)
  \/ \E u \in Actors : \E cb \in callbacks[u], w \in {1, 2} :
       snapshotCheckRead(u, cb, w, FALSE)
  \/ \E u \in Actors : \E cb \in callbacks[u] : snapshotCheckDone(u, cb)
  \/ \E u \in Actors : \E cb \in callbacks[u] : snapshotCommit(u, cb, FALSE)
  \/ \E u \in Actors : \E cb \in callbacks[u] : snapshotSetMessages(u, cb)
  \/ handleSendMessage(Requester, "hello")
  \/ \E w \in {1, 2} : sendCheckRead(Requester, w, FALSE)
  \/ sendCheckDone(Requester)
  \/ sendAddDoc(Requester)
  \/ \E i \in 1..MaxMessages, e \in Emojis : handleAddReactionRead(Acceptor, i, e)
  \/ handleAddReaction(Acceptor)

SpecScenario == Init /\ [][ScenarioNext]_vars

\* A and B are connected and A has blocked B; no message has been written and
\* neither has the messages page open.
TransportInit ==
  /\ userDocs = Users
  /\ authUsers = Users
  /\ connections = [u \in Users |-> IF u = "A" THEN {"B"} ELSE IF u = "B" THEN {"A"} ELSE {}]
  /\ pendingConnections = [u \in Users |-> {}]
  /\ blockedUsers = [u \in Users |-> IF u = "A" THEN {"B"} ELSE {}]
  /\ messages = EmptyMap
  /\ msgCount = 0
  /\ PageInit

\* Both open the conversation and the blocked user sends; any read of a user
\* document may fail.
TransportNext ==
  \/ \E u \in Actors, v \in Actors : fetchConnectedUsers(u, v)
  \/ \E u \in Actors, w \in {1, 2}, f \in BOOLEAN : updateBlockStatusRead(u, w, f)
  \/ \E u \in Actors : updateBlockStatus(u)
  \/ \E u \in Actors : onSnapshot(u)
  \/ \E u \in Actors : \E cb \in callbacks[u], w \in {1, 2}, f \in BOOLEAN :
       snapshotCheckRead(u, cb, w, f)
  \/ \E u \in Actors : \E cb \in callbacks[u] : snapshotCheckDone(u, cb)
  \/ \E u \in Actors : \E cb \in callbacks[u] : snapshotCommit(u, cb, FALSE)
  \/ \E u \in Actors : \E cb \in callbacks[u] : snapshotSetMessages(u, cb)
  \/ handleSendMessage("B", "hello")
  \/ \E w \in {1, 2}, f \in BOOLEAN : sendCheckRead("B", w, f)
  \/ sendCheckDone("B")
  \/ sendAddDoc("B")

SpecTransport == TransportInit /\ [][TransportNext]_vars

\* The block status effect of u's page runs on: its reads are answered.
StatusSteps(u) ==
  \/ \E w \in {1, 2} : updateBlockStatusRead(u, w, FALSE)
  \/ updateBlockStatus(u)

\* A callback of u's listener runs on.
CallbackSteps(u) ==
  \/ \E cb \in callbacks[u], w \in {1, 2} : snapshotCheckRead(u, cb, w, FALSE)
  \/ \E cb \in callbacks[u] : snapshotCheckDone(u, cb)
  \/ \E cb \in callbacks[u] : snapshotCommit(u, cb, FALSE)
  \/ \E cb \in callbacks[u] : snapshotSetMessages(u, cb)

\* A has sent B a message; both open the conversation, A blocks B and unblocks
\* again.
HideNext ==
  \/ \E u \in Actors, v \in Actors : fetchConnectedUsers(u, v)
  \/ \E u \in Actors : StatusSteps(u)
  \/ \E u \in Actors : onSnapshot(u)
  \/ \E u \in Actors : CallbackSteps(u)
  \/ \E u \in Senders : handleBlockUserRead(u)
  \/ \E u \in Senders : handleBlockUser(u)
  \/ \E u \in Senders : handleUnblockUserRead(u, FALSE)
  \/ \E u \in Senders : handleUnblockUser(u)

\* Every read is answered, every changed query result is delivered, and every
\* callback and handler that has started runs on; the clicks are the user's.
HideFairness ==
  \A u \in Actors :
    /\ WF_vars(StatusSteps(u))
    /\ WF_vars(onSnapshot(u))
    /\ WF_vars(CallbackSteps(u))
    /\ WF_vars(handleBlockUser(u))
    /\ WF_vars(handleUnblockUser(u))

SpecHide == ChatInit /\ [][HideNext]_vars /\ HideFairness

\* A is connected to B and to C; A and B open the messages page, A moves
\* between the two conversations, and either reports the user it has selected.
ReportSwitchNext ==
  \/ \E u \in Actors, v \in Users : fetchConnectedUsers(u, v)
  \/ \E u \in Actors, v \in Users : setSelectedUser(u, v)
  \/ \E u \in Actors : StatusSteps(u)
  \/ \E u \in Actors : handleReportUser(u, FALSE)

SpecReportSwitch == ClearInit /\ [][ReportSwitchNext]_vars

\* A has sent B a message; both open the conversation, the receiver reacts to
\* the message and the sender deletes it.
QuiesceNext ==
  \/ \E u \in Actors, v \in Actors : fetchConnectedUsers(u, v)
  \/ \E u \in Actors : onSnapshot(u)
  \/ \E u \in Actors : CallbackSteps(u)
  \/ \E i \in 1..MaxMessages, e \in Emojis : handleAddReactionRead(Acceptor, i, e)
  \/ handleAddReaction(Acceptor)
  \/ \E u \in Senders, i \in 1..MaxMessages : handleDeleteMessage(u, i)

\* Every changed query result is delivered and every callback runs on; the
\* clicks are the users'.
QuiesceFairness ==
  \A u \in Actors : WF_vars(onSnapshot(u)) /\ WF_vars(CallbackSteps(u))

SpecQuiesce == ChatInit /\ [][QuiesceNext]_vars /\ QuiesceFairness

----------------------------------------------------------------------------
\* Claims about the relationship handlers

\* No handleAcceptConnection and no handleDisconnect is between its two writes.
NoHandlerMidExecution ==
  \A u \in Users : acceptPc[u] = NoUser /\ disconnectPc[u] = NoUser

\* Among the existing users, B is in A.connections iff A is in B.connections.
Symmetric ==
  \A a \in userDocs, b \in userDocs :
    (b \in connections[a]) <=> (a \in connections[b])

C6_PendingExcludesConnected ==
  NoHandlerMidExecution =>
    \A a \in userDocs, b \in userDocs :
      /\ a \notin pendingConnections[a]
      /\ (a \in pendingConnections[b]) =>
           (a \notin connections[b] /\ b \notin connections[a])

\* C7: in the round trip of one request from Strangers, once the accept has
\* finished the two users are in each other's connections, neither is in the
\* other's pendingConnections and nobody is blocked: Connected from both sides.
C7_RoundTripConnected ==
  \A a \in Users, b \in Users :
    (a \in connections[b] /\ NoHandlerMidExecution) =>
      /\ b \in connections[a]
      /\ a \notin pendingConnections[b] /\ b \notin pendingConnections[a]
      /\ a \notin blockedUsers[b] /\ b \notin blockedUsers[a]

\* C7 witness: A sent the request (A's card of B holds it), B accepted, done.
C7_Witness ==
  /\ NoHandlerMidExecution
  /\ "A" \in connections["B"] /\ "B" \in connections["A"]
  /\ "B" \in DOMAIN profiles["A"]
  /\ "A" \in profiles["A"]["B"].pendingConnections

\* C8 (as claimed): once the deletion of a user has completed, the user's record
\* is gone and no remaining user's connections, pendingConnections or
\* blockedUsers holds the id.
C8_DeletionCascades ==
  \A u \in Users :
    (u \notin userDocs /\ ~deletePc[u]) =>
      \A v \in userDocs :
        u \notin connections[v] \cup pendingConnections[v] \cup blockedUsers[v]

\* u has other in blockedUsers, in the store.
Blocks(u, other) == u \in userDocs /\ other \in blockedUsers[u]

\* Either of the two has the other in blockedUsers.
PairBlocked(u, other) == Blocks(u, other) \/ Blocks(other, u)

\* A callback of u's listener returns in this step.
SnapshotProcessed(u) ==
  /\ callbacks'[u] # callbacks[u]
  /\ callbacks'[u] \subseteq callbacks[u]

\* C2: whenever a snapshot of a pair has been processed while either user has
\* the other in blockedUsers, the viewer's visible message list of the pair is
\* empty, whatever the store returned.
C2_VisibleListEmptyUnderBlock ==
  [][\A u \in Actors :
       (SnapshotProcessed(u) /\ PairBlocked(u, selectedUser[u]))
         => VisibleMessages(u)' = <<>>]_vars

\* Nothing of u's page is running and its listener has delivered the current
\* result of the query.
Quiescent(u) ==
  /\ statusCheck[u].st = "idle"
  /\ sendCheck[u].st = "idle"
  /\ blockRead[u].st = "idle"
  /\ callbacks[u] = {}
  /\ lastSnapshot[u] =
       [delivered |-> TRUE, docs |-> QueryResult(u, selectedUser[u])]

\* C3: once A has blocked B, both having the conversation open, both visible
\* lists of the pair become empty, also B's when no new snapshot arrives: when
\* nothing is left to run on either page, both lists are empty.
C3_BlockEmptiesBothLists ==
  (/\ Blocks("A", "B")
   /\ selectedUser["A"] = "B" /\ selectedUser["B"] = "A"
   /\ Quiescent("A") /\ Quiescent("B"))
    => VisibleMessages("A") = <<>> /\ VisibleMessages("B") = <<>>

\* handleSendMessage of u ends its block check in this step.
SendChecked(u) ==
  /\ sendCheck[u].st = "check"
  /\ sendCheck[u].chk.pending = {}
  /\ sendCheck'[u] # sendCheck[u]

\* The send of u whose check found a block ends without addDoc.
SendRejected(u) ==
  /\ sendCheck'[u] = Idle
  /\ messages' = messages

\* C4 as stated: Send creates no message when its block check finds that either
\* blocks the other, and reports a blocked-by-me error when other is in
\* me.blockedUsers and a blocked-by-them error when me is in other.blockedUsers.
C4_DistinctErrorPerDirection ==
  [][\A u \in Actors :
       (SendChecked(u) /\ (sendCheck[u].chk.user1BlocksUser2
                            \/ sendCheck[u].chk.user2BlocksUser1))
         => /\ SendRejected(u)
            /\ sendCheck[u].chk.user1BlocksUser2 => sendResult'[u] = "blockedByMe"
            /\ sendCheck[u].chk.user2BlocksUser1 => sendResult'[u] = "blockedByThem"]_vars

\* C4 amended: Send creates no message when its block check finds that either
\* blocks the other; it reports the blocked-by-them error when me is in
\* other.blockedUsers, also when both block each other, and the blocked-by-me
\* error when only other is in me.blockedUsers.
C4_BlockedByThemFirst ==
  [][\A u \in Actors :
       (SendChecked(u) /\ (sendCheck[u].chk.user1BlocksUser2
                            \/ sendCheck[u].chk.user2BlocksUser1))
         => /\ SendRejected(u)
            /\ sendCheck[u].chk.user2BlocksUser1 => sendResult'[u] = "blockedByThem"
            /\ (sendCheck[u].chk.user1BlocksUser2 /\ ~sendCheck[u].chk.user2BlocksUser1)
                 => sendResult'[u] = "blockedByMe"]_vars

\* A's send has been rejected with the blocked-by-me error, and no message
\* exists.
C4_Witness ==
  /\ sendResult["A"] = "blockedByMe"
  /\ Blocks("A", "B")
  /\ sendCheck["A"] = Idle
  /\ messages = EmptyMap

\* a and b are Strangers in the store: not connected, no request pending, no
\* block, in either direction.
Strangers(a, b) ==
  /\ b \notin connections[a] /\ a \notin connections[b]
  /\ b \notin pendingConnections[a] /\ a \notin pendingConnections[b]
  /\ b \notin blockedUsers[a] /\ a \notin blockedUsers[b]

\* C5: no message is written for a pair that is Strangers in the store when
\* the send writes, also when the pair was connected when the sender's page
\* loaded.
C5_NoMessageBetweenStrangers ==
  [][\A i \in DOMAIN messages' \ DOMAIN messages :
       ~Strangers(messages'[i].senderId, messages'[i].receiverId)]_vars

\* u's handleAddReaction writes message i in this step.
ReactionWritten(u, i) ==
  /\ reactionRead[u].st = "react"
  /\ reactionRead[u].messageId = i
  /\ reactionRead'[u] = Idle
  /\ i \in DOMAIN messages /\ i \in DOMAIN messages'

\* C9: a reaction by u sets reactions[u] to the emoji and leaves every other
\* user's entry untouched, in any interleaving of the two participants'
\* reactions.
C9_ReactionKeepsOtherEntries ==
  [][\A u \in Actors, i \in 1..MaxMessages :
       ReactionWritten(u, i)
         => /\ u \in DOMAIN messages'[i].reactions
            /\ messages'[i].reactions[u] = reactionRead[u].emoji
            /\ \A w \in DOMAIN messages[i].reactions \ {u} :
                 /\ w \in DOMAIN messages'[i].reactions
                 /\ messages'[i].reactions[w] = messages[i].reactions[w]]_vars

\* The text or the edited flag of message i changes in this step.
Edited(i) ==
  /\ i \in DOMAIN messages /\ i \in DOMAIN messages'
  /\ \/ messages'[i].text # messages[i].text
     \/ messages'[i].edited # messages[i].edited

\* C10: an edit changes a message only when the caller is its senderId and the
\* stored record is not deleted at the time of the write.
C10_EditOnlyOwnUndeleted ==
  [][\A i \in 1..MaxMessages :
       Edited(i)
         => /\ ~messages[i].isDeleted
            /\ \E u \in Actors :
                 editingMessageId[u] = i /\ messages[i].senderId = u]_vars

\* The message the list of u holds as deleted shows nowhere on u's page.
NoTextLeak(u) ==
  \A k \in 1..Len(VisibleMessages(u)) :
    VisibleMessages(u)[k].isDeleted
      => VisibleMessages(u)[k].text \notin RenderedOutput(u)

\* C11: a soft delete is made by the sender only, sets isDeleted and leaves the
\* other fields and every other record unchanged, and the text of a message
\* rendered as deleted is no part of the rendered output.
C11_SoftDeleteFrameAndNoLeak ==
  /\ [][\A u \in Actors, i \in 1..MaxMessages :
          handleDeleteMessage(u, i)
            => /\ messages[i].senderId = u
               /\ messages' = [messages EXCEPT ![i].isDeleted = TRUE]]_vars
  /\ [](\A u \in Actors : NoTextLeak(u))

\* C12: when a callback of viewer u ends with the list set (the pair found
\* unblocked), every message of its snapshot received by u that the store
\* holds is seen there; the seen batch changes the flag only of messages
\* received by u, and no step sets seen back to false.
C12_MarkSeen ==
  [][/\ \A u \in Actors : \A cb \in callbacks[u] :
          snapshotSetMessages(u, cb)
            => \A k \in 1..Len(cb.snap) :
                 (cb.snap[k].receiverId = u /\ cb.snap[k].id \in DOMAIN messages)
                   => messages[cb.snap[k].id].seen
     /\ \A u \in Actors : \A cb \in callbacks[u] :
          (\E f \in BOOLEAN : snapshotCommit(u, cb, f))
            => \A i \in DOMAIN messages :
                 messages'[i].seen # messages[i].seen => messages[i].receiverId = u
     /\ \A i \in DOMAIN messages \cap DOMAIN messages' :
          messages[i].seen => messages'[i].seen]_vars

\* B has processed the snapshot with A's message, which is seen in the store,
\* and A has processed a snapshot as well.
C12_Witness ==
  /\ messagesState["B"] # <<>>
  /\ messagesState["A"] # <<>>
  /\ \E i \in DOMAIN messages : messages[i].receiverId = "B" /\ messages[i].seen

\* C13: when the commit of the seen batch fails while a snapshot is processed
\* for an unblocked pair, the list is still set to the snapshot's messages.
C13_SeenFailureNonFatal ==
  [][\A u \in Actors : \A cb \in callbacks[u] :
       (cb.st = "commit" /\ callbacks'[u] = callbacks[u] \ {cb})
         => messagesState'[u] = cb.snap]_vars

\* Message i is between a and b: one is its sender and the other its receiver.
Between(i, a, b) ==
  \/ messages[i].senderId = a /\ messages[i].receiverId = b
  \/ messages[i].senderId = b /\ messages[i].receiverId = a

\* C14: a history clear reads every message between the two users that exists
\* when it starts, and when it completes all of them are gone from the store,
\* deleted, seen or not, blocked or not, while every message of another pair
\* is left as it was.
C14_ClearHistory ==
  [][\A u \in Actors :
       /\ handleDeleteChatHistoryRead(u)
            => clearRead'[u].docs =
                 {i \in DOMAIN messages : Between(i, u, selectedUser[u])}
       /\ (clearRead[u].st = "clear" /\ clearRead'[u] = Idle)
            => /\ DOMAIN messages' \cap clearRead[u].docs = {}
               /\ \A i \in DOMAIN messages :
                    ~Between(i, u, selectedUser[u])
                      => i \in DOMAIN messages' /\ messages'[i] = messages[i]]_vars

\* A has cleared the history with B under a block: the message between A and
\* B is gone and the message from C is still there.
C14_Witness ==
  /\ clearRead["A"] = Idle
  /\ Blocks("A", "B")
  /\ DOMAIN messages = {2}

\* C15: a second call of CancelRequest, RejectRequest or Unblock with the same
\* arguments, straight after the first, leaves connections, pendingConnections
\* and blockedUsers of all users as the first call left them.
C15_UndoIdempotent ==
  [][\A u \in Actors :
       \/ \E p \in Users : handleCancelRequestAgain(u, p)
       \/ \E c \in Users : handleRejectConnectionAgain(u, c)
       \/ handleUnblockUserRead(u, TRUE)
       \/ handleUnblockUser(u) /\ unblockRead[u].again
       => UNCHANGED <<connections, pendingConnections, blockedUsers>>]_vars

\* A has unblocked B and the second call of the handler has run to its end.
C15_Witness ==
  /\ lastCall = [op |-> "unblock", me |-> "A", other |-> "B", n |-> 3]
  /\ ~Blocks("A", "B")

\* C16: when the Profile page loads the pending list of a user, nobody that
\* the user blocks is listed with the Accept and Reject buttons: the state the
\* user sees for a blocked requester is BlockedByMe, not RequestSentByThem.
C16_BlockingPrecedence ==
  [][\A u \in Actors :
       fetchUserData(u)
         => \A c \in Users : Blocks(u, c) => ~ShowsPendingRequest(u, c)']_vars

\* C17: a connection request is written only for a pair that is Strangers in
\* the store at the write; when the pair is connected, a request is pending in
\* either direction or either blocks the other, the store is left as it is.
C17_SendRequestOnlyBetweenStrangers ==
  [][\A u \in Actors, p \in Users :
       handleAddFriend(u, p)
         => Strangers(u, p) \/ UNCHANGED storeVars]_vars

\* C18: an accept starts writing the connection only when the other user is
\* in my pendingConnections in the store at that moment; after a cancel by the
\* other user, or a reject by me, it creates no connection.
C18_AcceptOnlyPending ==
  [][\A u \in Actors, c \in Users :
       handleAcceptConnectionFirst(u, c)
         => \/ c \in pendingConnections[u]
            \/ UNCHANGED connections]_vars

\* C19 (the Report handler): running the handler a second time with the same
\* user, straight after the first run, leaves the users documents and the
\* reports collection as the first run left them.
C19_RetryIdempotent ==
  [][\A u \in Actors :
       handleReportUser(u, TRUE) => UNCHANGED <<storeVars, reports>>]_vars

\* C20: a page has at most one live message listener, the one of the
\* conversation it shows, and none when it is not mounted; a live listener has
\* never been unsubscribed and every other listener the page attached has been
\* unsubscribed exactly once.
C20_SubscriptionTeardown ==
  \A u \in Actors :
    /\ Cardinality(LiveListeners(u)) <= 1
    /\ selectedUser[u] = NoUser => LiveListeners(u) = {}
    /\ \A k \in 1..Len(listeners[u]) :
         IF listeners[u][k].live
           THEN /\ listeners[u][k].unsubscribes = 0
                /\ listeners[u][k].sel = selectedUser[u]
           ELSE listeners[u][k].unsubscribes = 1

\* A has opened a conversation, moved to the other one and left the page: both
\* listeners are unsubscribed.
C20_Witness ==
  /\ Len(listeners["A"]) = 2
  /\ listeners["A"][1].sel # listeners["A"][2].sel
  /\ selectedUser["A"] = NoUser
  /\ LiveListeners("A") = {}

\* C21: in the scenario from Strangers, the request leaves exactly the
\* requester in the acceptor's pendingConnections; the accept leaves each as the
\* other's only connection and no pending request; the send creates one message
\* with seen unset and no reactions; when the acceptor's page has processed the
\* snapshot with the message it is seen; the acceptor's reaction leaves the
\* reactions map with exactly the acceptor's entry.
C21_EndToEndScenario ==
  [][/\ handleAddFriend(Requester, Acceptor)
          => pendingConnections'[Acceptor] = {Requester}
     /\ handleAcceptConnectionSecond(Acceptor)
          => /\ connections'[Requester] = {Acceptor}
             /\ connections'[Acceptor] = {Requester}
             /\ pendingConnections'[Acceptor] = {}
     /\ (sendAddDoc(Requester) /\ msgCount = 0)
          => /\ DOMAIN messages' = {1}
             /\ messages'[1] =
                  [senderId |-> Requester, receiverId |-> Acceptor,
                   text |-> "hello", seen |-> FALSE, reactions |-> EmptyMap,
                   isDeleted |-> FALSE, edited |-> FALSE]
     /\ \A cb \in callbacks[Acceptor] :
          (snapshotSetMessages(Acceptor, cb) /\ cb.snap # <<>>)
            => messages'[1].seen
     /\ (handleAddReaction(Acceptor) /\ reactionRead[Acceptor].messageId = 1)
          => messages'[1].reactions =
               [w \in {Acceptor} |-> reactionRead[Acceptor].emoji]]_vars

\* The scenario has run to its end: connected, one message from the requester,
\* seen, with the acceptor's reaction only.
C21_Witness ==
  /\ connections[Requester] = {Acceptor} /\ connections[Acceptor] = {Requester}
  /\ pendingConnections[Acceptor] = {}
  /\ DOMAIN messages = {1}
  /\ messages[1].seen
  /\ DOMAIN messages[1].reactions = {Acceptor}

\* C22: a cancel of a request that is no longer pending, or whose target's
\* record no longer exists, and a reject of a request that is no longer
\* pending, leave the store as it is and end without an error.
C22_NotFoundIsNoOp ==
  [][\A u \in Actors, p \in Actors :
       /\ (handleCancelRequest(u, p)
             /\ (p \notin userDocs \/ u \notin pendingConnections[p]))
            => UNCHANGED storeVars /\ outcome'.result = "success"
       /\ (handleRejectConnection(u, p) /\ p \notin pendingConnections[u])
            => UNCHANGED storeVars /\ outcome'.result = "success"]_vars

\* C23: when the second write of an accept or of a disconnect fails after the
\* first has succeeded, the handler writes nothing more (no retry, no roll
\* back) and ends with the error reported to the user, neither as a success
\* nor as a rejection nothing handles.
C23_PartialWriteFailureSurfaced ==
  [][\A u \in Actors :
       /\ (handleAcceptConnectionSecond(u) /\ acceptPc[u] \notin userDocs)
            => UNCHANGED storeVars /\ outcome' = Ended("accept", u, "error")
       /\ (handleDisconnectSecond(u) /\ u \notin userDocs)
            => UNCHANGED storeVars /\ outcome' = Ended("disconnect", u, "error")]_vars

\* C24: when a read of a user's record fails during the block check of a send,
\* no Message record is created; when one fails during the block check of a
\* snapshot callback, the snapshot's messages are not put on the page.
C24_TransportErrorsNotMasked ==
  [][\A u \in Actors :
       /\ sendAddDoc(u) => ~sendCheck[u].chk.failed
       /\ \A cb \in callbacks[u] :
            (snapshotSetMessages(u, cb) /\ cb.chk.failed /\ cb.snap # <<>>)
              => messagesState'[u] # cb.snap]_vars

\* C25: at the instant a Message record is written, neither its sender is in
\* the receiver's blockedUsers nor the receiver in the sender's, also when the
\* block lands between the send's check and its write.
C25_NoMessageUnderBlock ==
  [][\A u \in Actors :
       sendAddDoc(u)
         => /\ u \notin blockedUsers[sendCheck[u].sel]
            /\ sendCheck[u].sel \notin blockedUsers[u]]_vars

\* C26: a block and an unblock leave the Message records as they are, and once
\* the user has unblocked, with the page still open and no block in either
\* direction, the page's visible list eventually equals the conversation's
\* records again.
C26_BlockingHidesOnly ==
  /\ [][\A u \in Senders :
          (handleBlockUser(u) \/ handleUnblockUser(u)) => UNCHANGED msgStore]_vars
  /\ \A u \in Senders :
       (outcome = Ended("unblock", u, "success"))
         ~> \/ VisibleMessages(u) = QueryResult(u, selectedUser[u])
            \/ PairBlocked(u, selectedUser[u])

\* C27: a snapshot callback that puts its messages on the page belongs to the
\* conversation the page shows at that moment, and it does not fill a list
\* that handleBlockUser has emptied since the callback started.
C27_ListOfSelectedPairOnly ==
  [][\A u \in Actors : \A cb \in callbacks[u] :
       snapshotSetMessages(u, cb)
         => /\ cb.sel = selectedUser[u]
            /\ isBlocked[u] => cb.snap = <<>>]_vars

\* A Report record from u on other is in the store.
Reported(u, other) ==
  \E k \in 1..Len(reports) :
    reports[k].reporterId = u /\ reports[k].reportedUserId = other

\* C28: on an open conversation, isReported is set exactly when the store
\* holds a Report record from the current user on the selected user.
C28_IsReportedMatchesStore ==
  \A u \in Actors :
    selectedUser[u] # NoUser => (isReported[u] <=> Reported(u, selectedUser[u]))

\* A step in which a user reacts to a message or deletes one.
UserChange ==
  \/ \E i \in 1..MaxMessages, e \in Emojis : handleAddReactionRead(Acceptor, i, e)
  \/ handleAddReaction(Acceptor)
  \/ \E u \in Senders, i \in 1..MaxMessages : handleDeleteMessage(u, i)

\* C29: with both participants on the conversation and finitely many changes
\* by the users, the loop of snapshot, seen batch and new snapshot comes to an
\* end: from some state on every callback has returned and no callback starts
\* or changes a Message record again.
C29_SnapshotProcessingQuiesces ==
  <>[][~UserChange]_vars =>
    /\ <>[](\A u \in Actors : callbacks[u] = {})
    /\ <>[][\A u \in Actors : CallbackSteps(u) => UNCHANGED messages]_vars

\* Both have the conversation open, B's callback has marked the message seen,
\* and the snapshots that followed have been processed on both pages.
C29_Witness ==
  /\ messages[1].seen
  /\ \A u \in Actors :
       /\ selectedUser[u] # NoUser
       /\ callbacks[u] = {}
       /\ lastSnapshot[u] =
            [delivered |-> TRUE, docs |-> QueryResult(u, selectedUser[u])]
       /\ messagesState[u] = QueryResult(u, selectedUser[u])

\* C30: when handleDeleteAccount has finished, with success or with a reported
\* error, the user's document exists exactly when the authentication account
\* exists (for a user whose document existed when the handler was started, or
\* was deleted by the handler itself).
C30_AccountDeletionAllOrNothing ==
  [][\A u \in Actors :
       /\ (handleDeleteAccountDoc(u) /\ u \in userDocs /\ outcome'.result = "error")
            => (u \in userDocs' <=> u \in authUsers')
       /\ handleDeleteAccountAuth(u)
            => (u \in userDocs' <=> u \in authUsers')]_vars

====
